---- MODULE Spec2Model ----
(***************************************************************************)
(* The returns computation engine of the trading dashboard backend:        *)
(* InvestmentCalculator (recalculateFromDate, calculateMonthlyReturns,     *)
(* getCorpusAtDate, getPlatformReturns, calculateWeightedReturn,           *)
(* calculateClientReturns, getMonthsFromDate) and the admin request        *)
(* handlers that mutate the ledger and the platform store and trigger it.  *)
(*                                                                         *)
(* Dates are instants on one axis.  Every calendar month holds             *)
(* InstantsPerMonth instants; the first is the first day at 00:00, the     *)
(* last but one is the last day at 00:00 and the last is a later time of   *)
(* the last day.  Amounts are integers; percentages derived by division    *)
(* are exact rationals <<numerator, denominator>>.                         *)
(***************************************************************************)
EXTENDS Integers, Sequences, FiniteSets, TLC

\* ------------------------------------------------------------------ bounds
MaxMonth == 2          \* calendar months 0..MaxMonth
MaxTx == 2             \* transactions the ledger can hold
MaxOps == 2            \* requests served in one behaviour
MaxOverlap == 3        \* requests served in one behaviour of the overlapping-reads specification
MaxPlatforms == 1      \* platform allocations
MaxWeek == 5           \* weeks 0..MaxWeek of weekly platform data
MaxEntries == 2        \* weekly rows entered before the first request of the weekly specification
MaxDrawn == 2          \* platforms of the drawn platform store

InstantsPerMonth == 3
DaysPerWeek == 7
DaysPerMonth == 28

Months == 0..MaxMonth
MaxInstant == InstantsPerMonth * (MaxMonth + 1) - 1
Instants == 0..MaxInstant
Weeks == 0..MaxWeek

\* Weekly platform data is dated in days from the first day of month 0; a week starts
\* on a day and ends six days later.
WeekStart(w) == DaysPerWeek * w
\* new Date(y, m, 1) and new Date(y, m + 1, 0) of calculate-from-weekly, in days.
firstDayOfMonth(m) == m * DaysPerMonth
lastDayOfMonth(m) == (m + 1) * DaysPerMonth - 1

\* Date.getFullYear()/getMonth() of an instant, as one month number.
getMonth(d) == d \div InstantsPerMonth
\* new Date(y, m, 1): the first day of the month at 00:00.
startOfMonth(m) == m * InstantsPerMonth
\* new Date(y, m + 1, 0): the LAST DAY of the month at 00:00.
endOfMonth(m) == (m + 1) * InstantsPerMonth - 2
\* The last instant that still belongs to calendar month m.
lastInstantOfMonth(m) == (m + 1) * InstantsPerMonth - 1

\* ------------------------------------------------------------------ inputs
Users == {"c1", "c2"}                 \* the User documents that exist
GhostId == "ghost"                    \* a well-formed id of no User document
ClientIds == Users \cup {GhostId}
Amounts == {1, 2}
Types == {"deposit", "withdrawal"}
PlatformAmounts == {100}
PlatformValues == {0, 120}
ReturnPercentages == {10}

\* ------------------------------------------------------------------ numbers
RECURSIVE GCD(_, _)
GCD(a, b) == IF b = 0 THEN a ELSE GCD(b, a % b)

Abs(x) == IF x < 0 THEN -x ELSE x

\* The rational n/d (d # 0) in lowest terms with a positive denominator.
Rat(n, d) ==
    LET g == GCD(Abs(n), Abs(d))
        s == IF d < 0 THEN -1 ELSE 1
    IN  <<(s * n) \div g, (s * d) \div g>>

RatZero == <<0, 1>>

\* Number.prototype.toFixed: n/d (d > 0) rounded to the nearest integer, halves
\* away from zero.
RoundDiv(n, d) ==
    IF n >= 0 THEN (2 * n + d) \div (2 * d)
    ELSE -((2 * (-n) + d) \div (2 * d))

RatAdd(a, b) == Rat(a[1] * b[2] + b[1] * a[2], a[2] * b[2])
RatSub(a, b) == Rat(a[1] * b[2] - b[1] * a[2], a[2] * b[2])
RatDivInt(a, n) == Rat(a[1], a[2] * n)
RatMulInt(a, n) == Rat(a[1] * n, a[2])
RatDiv(a, b) == Rat(a[1] * b[2], a[2] * b[1])

\* Math.ceil(n / d) for n > 0, d > 0.
CeilDiv(n, d) == (n + d - 1) \div d

RECURSIVE SumSeq(_)
SumSeq(s) == IF s = <<>> THEN 0 ELSE Head(s) + SumSeq(Tail(s))

SeqMap(Op(_), s) == [i \in 1..Len(s) |-> Op(s[i])]

\* ------------------------------------------------------------------ state
VARIABLES
    now,             \* the clock: the current instant
    ledger,          \* the Investment collection, in insertion order
    platforms,       \* the PlatformInvestment collection
    monthlyReturns,  \* the MonthlyReturn collection
    weekly,          \* the WeeklyPlatformData collection
    auditLogs,       \* the AuditLog collection
    ops,             \* the requests served so far, each with its position
    lastRun,         \* the last recalculateFromDate that returned, while nothing was mutated since
    rerun            \* the last pair of consecutive runs of recalculateFromDate with one fromDate month

vars == <<now, ledger, platforms, monthlyReturns, weekly, auditLogs, ops, lastRun, rerun>>

\* ------------------------------------------------------------------ InvestmentCalculator
\* The signed amount of a transaction: deposit +amount, withdrawal -amount.
SignedAmount(inv) == IF inv.type = "withdrawal" THEN -inv.amount ELSE inv.amount

\* A find that forgets the status filter.
FindInvestmentsAnyStatus(L, date) ==
    SelectSeq(L, LAMBDA inv : inv.investmentDate <= date)

\* Investment.find({investmentDate: {$lte: date}, status: 'active'})
FindInvestments(L, date) ==
    SelectSeq(L, LAMBDA inv : inv.investmentDate <= date /\ inv.status = "active")

\* populate('clientId') leaves null where no User document has the id, and
\* inv.clientId._id then throws a TypeError.
PopulateFails(invs) == \E i \in 1..Len(invs) : invs[i].clientId \notin Users

\* The forEach that groups the investments by client, in order of first appearance.
RECURSIVE GroupByClient(_, _)
GroupByClient(invs, acc) ==
    IF invs = <<>> THEN acc
    ELSE LET inv == Head(invs)
             pos == {i \in 1..Len(acc) : acc[i].clientId = inv.clientId}
             nxt == IF pos = {}
                    THEN Append(acc, [clientId |-> inv.clientId,
                                      totalInvestment |-> SignedAmount(inv)])
                    ELSE [acc EXCEPT ![CHOOSE i \in pos : TRUE].totalInvestment =
                                         @ + SignedAmount(inv)]
         IN  GroupByClient(Tail(invs), nxt)

\* A share that counts a client of an empty corpus as its only owner.
SharePercentageWholeOfNothing(totalInvestment, totalCorpus) ==
    IF totalCorpus = 0 THEN 10000
    ELSE LET q == Rat(totalInvestment * 10000, totalCorpus)
         IN  RoundDiv(q[1], q[2])

\* parseFloat((totalInvestment / totalCorpus * 100).toFixed(2)), in hundredths of a percent.
SharePercentage(totalInvestment, totalCorpus) ==
    IF totalCorpus = 0 THEN 0
    ELSE LET q == Rat(totalInvestment * 10000, totalCorpus)
         IN  RoundDiv(q[1], q[2])

CorpusError == [err |-> TRUE, totalCorpus |-> 0, clientShares |-> <<>>]

\* A total that adds every amount, withdrawals too, while the client totals subtract them.
TotalCorpusUnsigned(investments) ==
    SumSeq([i \in 1..Len(investments) |-> investments[i].amount])

\* let totalCorpus = 0; ... totalCorpus += amount, over the investments found.
TotalCorpus(investments) == SumSeq(SeqMap(SignedAmount, investments))

\* getCorpusAtDate(date): err is TRUE when the call throws.
getCorpusAtDate(L, date) ==
    LET investments == FindInvestments(L, date)
        totalCorpus == TotalCorpus(investments)
        grouped == GroupByClient(investments, <<>>)
    IN  IF PopulateFails(investments) THEN CorpusError
        ELSE [err |-> FALSE,
              totalCorpus |-> totalCorpus,
              clientShares |->
                  [i \in 1..Len(grouped) |->
                      [clientId |-> grouped[i].clientId,
                       totalInvestment |-> grouped[i].totalInvestment,
                       sharePercentage |->
                           SharePercentage(grouped[i].totalInvestment, totalCorpus)]]]

\* A find without the status filter: closed platforms are selected too.
RECURSIVE FindPlatformsAnyStatus(_, _, _)
FindPlatformsAnyStatus(P, endDate, i) ==
    IF i > Len(P) THEN <<>>
    ELSE LET rest == FindPlatformsAnyStatus(P, endDate, i + 1)
         IN  IF P[i].investmentDate <= endDate THEN <<i>> \o rest ELSE rest

\* PlatformInvestment.find({investmentDate: {$lte: endDate}, status: 'active'}), as ids.
RECURSIVE FindPlatforms(_, _, _)
FindPlatforms(P, endDate, i) ==
    IF i > Len(P) THEN <<>>
    ELSE LET rest == FindPlatforms(P, endDate, i + 1)
         IN  IF P[i].investmentDate <= endDate /\ P[i].status = "active"
             THEN <<i>> \o rest ELSE rest

\* getPlatformReturns(startDate, endDate): every selected platform with its present
\* returnPercentage and currentValue, whatever the period.
getPlatformReturns(P, startDate, endDate) ==
    LET ids == FindPlatforms(P, endDate, 1)
        data == [j \in 1..Len(ids) |->
                    [platformId |-> ids[j],
                     returnPercentage |-> P[ids[j]].returnPercentage,
                     currentValue |-> P[ids[j]].currentValue]]
    IN  [totalValue |-> SumSeq([j \in 1..Len(data) |-> data[j].currentValue]),
         platforms |-> data]

\* The plain average of the platforms' return percentages.
calculateUnweightedReturn(pr) ==
    IF pr.totalValue = 0 THEN RatZero
    ELSE Rat(SumSeq([j \in 1..Len(pr.platforms) |-> pr.platforms[j].returnPercentage]),
             Len(pr.platforms))

\* calculateWeightedReturn(platformReturns), a rational percentage.
calculateWeightedReturn(pr) ==
    IF pr.totalValue = 0 THEN RatZero
    ELSE Rat(SumSeq([j \in 1..Len(pr.platforms) |->
                        pr.platforms[j].returnPercentage * pr.platforms[j].currentValue]),
             pr.totalValue)

\* calculateClientReturns(corpusData, returnPercentage, date).  The previous closing
\* balance it fetches for every client is read and never used.
calculateClientReturns(corpusData, returnPercentage) ==
    [i \in 1..Len(corpusData.clientShares) |->
        LET share == corpusData.clientShares[i]
            currentInvestment == share.totalInvestment
            returnAmount == Rat(currentInvestment * returnPercentage[1],
                                returnPercentage[2] * 100)
            closingBalance == Rat(currentInvestment * returnAmount[2] + returnAmount[1],
                                  returnAmount[2])
        IN  [clientId |-> share.clientId,
             investmentShare |-> currentInvestment,
             sharePercentage |-> share.sharePercentage,
             returnAmount |-> returnAmount,
             closingBalance |-> closingBalance]]

\* A getMonthsFromDate whose loop stops before the current month (current < now).
getMonthsFromDateExclusive(fromDate, t) == <<getMonth(fromDate), getMonth(t) - 1>>

\* A getMonthsFromDate that starts at the first month whatever fromDate is.
getMonthsFromFirstMonth(fromDate, t) == <<0, getMonth(t)>>

\* getMonthsFromDate(fromDate) at instant t: the months from fromDate's month while their
\* first day is <= t, as <<first, last>> (no month when first > last).
getMonthsFromDate(fromDate, t) == <<getMonth(fromDate), getMonth(t)>>

MonthsOf(range) == {m \in Months : range[1] <= m /\ m <= range[2]}
MonthsLength(range) == IF range[2] >= range[1] THEN range[2] - range[1] + 1 ELSE 0

\* The update document calculateMonthlyReturns hands to findOneAndUpdate, as the
\* monthlyReturnSchema stores it (platformReturns keeps platformId and returnPercentage).
SnapshotDoc(m, corpusData, platformReturns, calculatedAt) ==
    LET totalReturnPercentage == calculateWeightedReturn(platformReturns)
    IN  [month |-> startOfMonth(m),
         totalCorpus |-> corpusData.totalCorpus,
         totalPlatformValue |-> platformReturns.totalValue,
         monthlyReturnPercentage |-> totalReturnPercentage,
         clientReturns |-> calculateClientReturns(corpusData, totalReturnPercentage),
         platformReturns |->
             [j \in 1..Len(platformReturns.platforms) |->
                 [platformId |-> platformReturns.platforms[j].platformId,
                  returnPercentage |-> platformReturns.platforms[j].returnPercentage]],
         calculatedAt |-> calculatedAt]

\* ------------------------------------------------------------------ MonthlyReturn store
\* The documents of the collection that the filter {month: startOfMonth} matches.
MatchingDocs(coll, month) == {i \in 1..Len(coll) : coll[i].month = month}

\* An update that keeps the stored entries of the clients and platforms that the new
\* document does not list.
UpdateMatchedMerge(coll, doc) ==
    LET i == CHOOSE i \in MatchingDocs(coll, doc.month) :
                 \A j \in MatchingDocs(coll, doc.month) : i <= j
        keptClients == SelectSeq(coll[i].clientReturns,
                                 LAMBDA old : \A j \in 1..Len(doc.clientReturns) :
                                                  doc.clientReturns[j].clientId # old.clientId)
        keptPlatforms == SelectSeq(coll[i].platformReturns,
                                   LAMBDA old : \A j \in 1..Len(doc.platformReturns) :
                                                    doc.platformReturns[j].platformId
                                                        # old.platformId)
    IN  [coll EXCEPT ![i] = [doc EXCEPT !.clientReturns = @ \o keptClients,
                                        !.platformReturns = @ \o keptPlatforms]]

\* An update that $pushes the new clientReturns onto the stored ones.
UpdateMatchedPush(coll, doc) ==
    LET i == CHOOSE i \in MatchingDocs(coll, doc.month) :
                 \A j \in MatchingDocs(coll, doc.month) : i <= j
    IN  [coll EXCEPT ![i] = [doc EXCEPT !.clientReturns = coll[i].clientReturns \o @]]

\* The update of findOneAndUpdate on a matched document: every field of the update
\* is $set on the first match.
UpdateMatched(coll, doc) ==
    [coll EXCEPT ![CHOOSE i \in MatchingDocs(coll, doc.month) :
                      \A j \in MatchingDocs(coll, doc.month) : i <= j] = doc]

\* A collection without the unique index: every insert is accepted.
UniqueMonthMissing(coll, doc) == TRUE

\* monthlyReturnSchema.index({month: 1}, {unique: true}): an insert is refused
\* (E11000) when a document with that month is stored.
UniqueMonthAllows(coll, doc) == MatchingDocs(coll, doc.month) = {}

\* ------------------------------------------------------------------ requests
NoCorpus == [err |-> FALSE, totalCorpus |-> 0, clientShares |-> <<>>]
NoPlatformReturns == [totalValue |-> 0, platforms |-> <<>>]
NoRange == <<0, -1>>
NoRun == [valid |-> FALSE, fromMonth |-> 0, range |-> NoRange, store |-> <<>>, id |-> 0]
NoRerun == [valid |-> FALSE, range |-> NoRange, first |-> <<>>, second |-> <<>>]

NoRow == [platformId |-> 0, weekStartDate |-> 0, weekEndDate |-> 0,
          openingValue |-> RatZero, closingValue |-> RatZero, profitAmount |-> RatZero,
          isInterpolated |-> FALSE, enteredBy |-> "none"]
NoReturn == [nan |-> FALSE, value |-> RatZero]

\* A request that has not yet done anything.  pc is its position: "calcCorpus",
\* "calcPlatforms", "calcUpsert", "calcInsert" inside calculateMonthlyReturns,
\* "respond" after the calculation, "done" once the response is sent.
\*   cascade: the calculation runs inside recalculateFromDate
\*   calc: "none", "ok" (returned) or "threw"
\*   monthsRecalculated: what recalculateFromDate returned (-1: nothing returned)
\*   calcLog: the calls of calculateMonthlyReturns, <<"start", m>> and <<"end", m>>
\*   clean: no ledger or platform mutation since the request began
\*   loaded, amount: the amount of the document that findById returned to an edit, and
\*     the amount of the request body
\*   startedAt: the clock when the request came in
\*   queue: the active platforms interpolateMissingWeeks has still to walk
\*   existingWeeks, currentWeek: the locals of its loop; pending: the row to create
\*   inserted: the weeks this request has inserted; interp: "none", "ok" or "threw"
\*   monthlyReturn: what calculateMonthlyReturnFromWeekly returned
BaseOp(kind) ==
    [kind |-> kind, pc |-> "respond", target |-> 0, saved |-> FALSE, startedAt |-> now,
     cascade |-> FALSE, fromDate |-> -1, range |-> NoRange, month |-> 0,
     corpusData |-> NoCorpus, platformReturns |-> NoPlatformReturns, calculatedAt |-> 0,
     calcLog |-> <<>>, calc |-> "none", monthsRecalculated |-> -1,
     response |-> 0, repeatOf |-> 0, clean |-> TRUE, loaded |-> 0, amount |-> 0,
     queue |-> <<>>, existingWeeks |-> {}, currentWeek |-> 0, pending |-> NoRow,
     inserted |-> <<>>, interp |-> "none", weeksUsed |-> 0, monthlyReturn |-> NoReturn]

InFlight(op) == op.pc # "done"
AllDone == \A k \in DOMAIN ops : ~InFlight(ops[k])

\* recalculateFromDate(fromDate) up to its first await inside the loop: the months are
\* fixed by the clock at the call.
BeginRecalc(op, fromDate) ==
    LET range == getMonthsFromDate(fromDate, now)
    IN  IF MonthsLength(range) = 0
        THEN [op EXCEPT !.cascade = TRUE, !.fromDate = fromDate, !.range = range,
                        !.calc = "ok", !.monthsRecalculated = 0, !.pc = "respond"]
        ELSE [op EXCEPT !.cascade = TRUE, !.fromDate = fromDate, !.range = range,
                        !.month = range[1], !.pc = "calcCorpus"]

\* calculateMonthlyReturns(new Date()) called directly: the current month alone.
BeginCalc(op) ==
    [op EXCEPT !.range = <<getMonth(now), getMonth(now)>>, !.month = getMonth(now),
               !.pc = "calcCorpus"]

\* What the return of recalculateFromDate in request k leaves in lastRun and rerun,
\* when lr was the last run before it and store is the collection it leaves.
Returned(op, k, store, lr) ==
    <<IF op.clean
      THEN [valid |-> TRUE, fromMonth |-> getMonth(op.fromDate), range |-> op.range,
            store |-> store, id |-> k]
      ELSE NoRun,
      IF op.clean /\ lr.valid /\ op.repeatOf # 0
      THEN [valid |-> TRUE, range |-> lr.range, first |-> lr.store, second |-> store]
      ELSE rerun>>

\* A request enters the system.  mutates: it has changed the ledger or a platform.
StartOp(op, mutates) ==
    /\ Len(ops) < MaxOverlap
    /\ LET k == Len(ops) + 1
           lr == IF mutates THEN NoRun ELSE lastRun
           marked == IF mutates
                     THEN [j \in DOMAIN ops |-> [ops[j] EXCEPT !.clean = FALSE]]
                     ELSE ops
           book == Returned(op, k, monthlyReturns, lr)
       IN  /\ ops' = Append(marked, op)
           /\ IF op.cascade /\ op.calc = "ok"
              THEN lastRun' = book[1] /\ rerun' = book[2]
              ELSE lastRun' = lr /\ rerun' = rerun

NewInvestment(clientId, amount, date, type) ==
    [clientId |-> clientId, amount |-> amount, investmentDate |-> date, type |-> type,
     isEdited |-> FALSE, editHistory |-> <<>>, status |-> "active"]

\* POST /investments
CreateInvestment(clientId, amount, date, type) ==
    /\ Len(ledger) < MaxTx
    /\ ledger' = Append(ledger, NewInvestment(clientId, amount, date, type))
    /\ StartOp(BeginRecalc([BaseOp("create") EXCEPT !.target = Len(ledger) + 1,
                                                    !.saved = TRUE], date), TRUE)
    /\ UNCHANGED <<now, platforms, monthlyReturns, weekly, auditLogs>>

\* PUT /investments/:investmentId, to the call of recalculateFromDate
EditInvestment(id, amount) ==
    IF id > Len(ledger)
    THEN /\ StartOp([BaseOp("edit") EXCEPT !.response = 404, !.pc = "done"], FALSE)
         /\ UNCHANGED <<now, ledger, platforms, monthlyReturns, weekly, auditLogs>>
    ELSE /\ ledger' = [ledger EXCEPT ![id] =
                          [@ EXCEPT !.editHistory =
                                        Append(@, [previousAmount |-> ledger[id].amount,
                                                   newAmount |-> amount]),
                                    !.amount = amount,
                                    !.isEdited = TRUE]]
         /\ StartOp(BeginRecalc([BaseOp("edit") EXCEPT !.target = id, !.saved = TRUE],
                                ledger[id].investmentDate), TRUE)
         /\ UNCHANGED <<now, platforms, monthlyReturns, weekly, auditLogs>>

\* PUT /investments/:investmentId with its awaits as separate steps.  EditFind is the
\* handler to the return of Investment.findById: the request holds the document it read.
EditFind(id, amount) ==
    /\ IF id > Len(ledger)
       THEN StartOp([BaseOp("edit") EXCEPT !.response = 404, !.pc = "done"], FALSE)
       ELSE StartOp([BaseOp("edit") EXCEPT !.target = id, !.loaded = ledger[id].amount,
                                           !.amount = amount, !.pc = "editSave"], FALSE)
    /\ UNCHANGED <<now, ledger, platforms, monthlyReturns, weekly, auditLogs>>

\* An edit that saves the transaction as active.
EditSaveReactivating(k) ==
    /\ ops[k].pc = "editSave"
    /\ LET op == ops[k]
           id == op.target
           begun == BeginRecalc([op EXCEPT !.saved = TRUE], ledger[id].investmentDate)
           book == Returned(begun, k, monthlyReturns, NoRun)
       IN  /\ ledger' = [ledger EXCEPT ![id] =
                             [@ EXCEPT !.editHistory =
                                           Append(@, [previousAmount |-> op.loaded,
                                                      newAmount |-> op.amount]),
                                       !.amount = op.amount,
                                       !.isEdited = TRUE,
                                       !.status = "active"]]
           /\ ops' = [j \in DOMAIN ops |->
                         IF j = k THEN begun ELSE [ops[j] EXCEPT !.clean = FALSE]]
           /\ IF begun.calc = "ok"
              THEN lastRun' = book[1] /\ rerun' = book[2]
              ELSE lastRun' = NoRun /\ rerun' = rerun
    /\ UNCHANGED <<now, platforms, monthlyReturns, weekly, auditLogs>>

\* editHistory.push, the assignments and investment.save(), to the call of
\* recalculateFromDate.  The entry pushed holds the amount of the document the request
\* read; save() sends the changes of that document ($push of the entry, $set of amount
\* and isEdited) with no condition on what is stored.
EditSave(k) ==
    /\ ops[k].pc = "editSave"
    /\ LET op == ops[k]
           id == op.target
           begun == BeginRecalc([op EXCEPT !.saved = TRUE], ledger[id].investmentDate)
           book == Returned(begun, k, monthlyReturns, NoRun)
       IN  /\ ledger' = [ledger EXCEPT ![id] =
                             [@ EXCEPT !.editHistory =
                                           Append(@, [previousAmount |-> op.loaded,
                                                      newAmount |-> op.amount]),
                                       !.amount = op.amount,
                                       !.isEdited = TRUE]]
           /\ ops' = [j \in DOMAIN ops |->
                         IF j = k THEN begun ELSE [ops[j] EXCEPT !.clean = FALSE]]
           /\ IF begun.calc = "ok"
              THEN lastRun' = book[1] /\ rerun' = book[2]
              ELSE lastRun' = NoRun /\ rerun' = rerun
    /\ UNCHANGED <<now, platforms, monthlyReturns, weekly, auditLogs>>

\* A cancellation that also removes the stored snapshots from the transaction's month on.
DeleteInvestmentPurging(id) ==
    IF id > Len(ledger)
    THEN /\ StartOp([BaseOp("delete") EXCEPT !.response = 404, !.pc = "done"], FALSE)
         /\ UNCHANGED <<now, ledger, platforms, monthlyReturns, weekly, auditLogs>>
    ELSE /\ ledger' = [ledger EXCEPT ![id].status = "cancelled"]
         /\ monthlyReturns' =
                SelectSeq(monthlyReturns,
                          LAMBDA doc : doc.month <
                                           startOfMonth(getMonth(ledger[id].investmentDate)))
         /\ StartOp(BeginRecalc([BaseOp("delete") EXCEPT !.target = id, !.saved = TRUE],
                                ledger[id].investmentDate), TRUE)
         /\ UNCHANGED <<now, platforms, weekly, auditLogs>>

\* DELETE /investments/:investmentId, to the call of recalculateFromDate
DeleteInvestment(id) ==
    IF id > Len(ledger)
    THEN /\ StartOp([BaseOp("delete") EXCEPT !.response = 404, !.pc = "done"], FALSE)
         /\ UNCHANGED <<now, ledger, platforms, monthlyReturns, weekly, auditLogs>>
    ELSE /\ ledger' = [ledger EXCEPT ![id].status = "cancelled"]
         /\ StartOp(BeginRecalc([BaseOp("delete") EXCEPT !.target = id, !.saved = TRUE],
                                ledger[id].investmentDate), TRUE)
         /\ UNCHANGED <<now, platforms, monthlyReturns, weekly, auditLogs>>

\* POST /recalculate, to the call of recalculateFromDate
Recalculate(fromDate) ==
    /\ StartOp(BeginRecalc([BaseOp("recalc") EXCEPT !.repeatOf =
                               IF lastRun.valid /\ lastRun.fromMonth = getMonth(fromDate)
                               THEN lastRun.id ELSE 0], fromDate), FALSE)
    /\ UNCHANGED <<now, ledger, platforms, monthlyReturns, weekly, auditLogs>>

\* POST /platform-investments, to the call of recalculateFromDate
AddPlatformInvestment(amount, date) ==
    /\ Len(platforms) < MaxPlatforms
    /\ platforms' = Append(platforms, [amount |-> amount, investmentDate |-> date,
                                       returnPercentage |-> 0, currentValue |-> amount,
                                       status |-> "active"])
    /\ StartOp(BeginRecalc([BaseOp("platCreate") EXCEPT !.target = Len(platforms) + 1,
                                                        !.saved = TRUE], date), TRUE)
    /\ UNCHANGED <<now, ledger, monthlyReturns, weekly, auditLogs>>

\* PUT /platform-investments/:platformId/returns, to the call of calculateMonthlyReturns
UpdatePlatformReturns(id, returnPercentage, currentValue) ==
    IF id > Len(platforms)
    THEN /\ StartOp([BaseOp("platUpdate") EXCEPT !.response = 404, !.pc = "done"], FALSE)
         /\ UNCHANGED <<now, ledger, platforms, monthlyReturns, weekly, auditLogs>>
    ELSE /\ platforms' = [platforms EXCEPT ![id].returnPercentage = returnPercentage,
                                           ![id].currentValue = currentValue]
         /\ StartOp(BeginCalc([BaseOp("platUpdate") EXCEPT !.target = id, !.saved = TRUE]),
                    TRUE)
         /\ UNCHANGED <<now, ledger, monthlyReturns, weekly, auditLogs>>

\* POST /platform-investments/bulk-update with one update, to the call of
\* calculateMonthlyReturns(new Date()): a platform that is found gets the return and
\* currentValue = amount * (1 + returnPercentage / 100); one that is not found is
\* reported in the results, and the current month is calculated all the same.
BulkUpdate(id, returnPercentage) ==
    /\ platforms' = IF id > Len(platforms) THEN platforms
                    ELSE [platforms EXCEPT
                             ![id].returnPercentage = returnPercentage,
                             ![id].currentValue =
                                 (platforms[id].amount * (100 + returnPercentage)) \div 100]
    /\ StartOp(BeginCalc([BaseOp("bulkUpdate") EXCEPT !.target = id,
                                                      !.saved = id <= Len(platforms)]),
               id <= Len(platforms))
    /\ UNCHANGED <<now, ledger, monthlyReturns, weekly, auditLogs>>

WeeklyClosingValues == {120}

\* A findOne without the platformId filter: the rows of any platform that end before
\* startDate.
RowsBeforeAnyPlatform(W, platformId, startDate) ==
    {i \in 1..Len(W) : W[i].weekEndDate < startDate}

\* WeeklyPlatformData.findOne({platformId, weekEndDate: {$lt: startDate}}).sort('-weekEndDate'):
\* the rows of the platform that end before startDate, and the latest of them.
RowsBefore(W, platformId, startDate) ==
    {i \in 1..Len(W) : W[i].platformId = platformId /\ W[i].weekEndDate < startDate}

LatestRow(W, rows) == CHOOSE i \in rows : \A j \in rows : W[j].weekEndDate <= W[i].weekEndDate

\* WeeklyPlatformData.findOne({platformId, weekStartDate: {$gt: currentWeek}}).sort('weekStartDate')
RowsAfter(W, platformId, currentWeek) ==
    {i \in 1..Len(W) : W[i].platformId = platformId /\ W[i].weekStartDate > currentWeek}

EarliestRow(W, rows) ==
    CHOOSE i \in rows : \A j \in rows : W[i].weekStartDate <= W[j].weekStartDate

\* A collection without the unique index on the platform's week.
UniqueWeekMissing(W, platformId, startDate) == TRUE

\* weeklyPlatformDataSchema.index({platformId: 1, weekStartDate: 1}, {unique: true})
UniqueWeekAllows(W, platformId, startDate) ==
    ~\E i \in 1..Len(W) : W[i].platformId = platformId /\ W[i].weekStartDate = startDate

\* The row POST /platforms/weekly-data builds: the opening value is the closing value
\* of the latest earlier week, or the platform's amount when there is none.
EnteredRow(W, P, platformId, startDate, closingValue) ==
    LET before == RowsBefore(W, platformId, startDate)
        openingValue == IF before # {}
                        THEN W[LatestRow(W, before)].closingValue
                        ELSE <<P[platformId].amount, 1>>
    IN  [platformId |-> platformId, weekStartDate |-> startDate,
         weekEndDate |-> startDate + 6,
         openingValue |-> openingValue, closingValue |-> <<closingValue, 1>>,
         profitAmount |-> RatSub(<<closingValue, 1>>, openingValue),
         isInterpolated |-> FALSE, enteredBy |-> "admin"]

\* POST /platforms/weekly-data: the whole handler; it calls no calculation.
EnterWeeklyData(platformId, startDate, closingValue) ==
    IF platformId > Len(platforms)
    THEN /\ StartOp([BaseOp("weekly") EXCEPT !.response = 404, !.pc = "done"], FALSE)
         /\ UNCHANGED <<now, ledger, platforms, monthlyReturns, weekly, auditLogs>>
    ELSE LET row == EnteredRow(weekly, platforms, platformId, startDate, closingValue)
         IN  /\ row.openingValue[1] # 0
             /\ IF UniqueWeekAllows(weekly, platformId, startDate)
                THEN /\ weekly' = Append(weekly, row)
                     /\ platforms' = [platforms EXCEPT ![platformId].currentValue =
                                                           closingValue]
                     /\ StartOp([BaseOp("weekly") EXCEPT !.target = platformId,
                                                         !.saved = TRUE,
                                                         !.response = 200,
                                                         !.pc = "done"], TRUE)
                ELSE /\ StartOp([BaseOp("weekly") EXCEPT !.target = platformId,
                                                         !.response = 500,
                                                         !.pc = "done"], FALSE)
                     /\ UNCHANGED <<weekly, platforms>>
             /\ UNCHANGED <<now, ledger, monthlyReturns, auditLogs>>

\* ------------------------------------------------------------------ interpolateMissingWeeks
\* PlatformInvestment.find({status: 'active'}), as ids in collection order.
RECURSIVE ActivePlatforms(_, _)
ActivePlatforms(P, i) ==
    IF i > Len(P) THEN <<>>
    ELSE (IF P[i].status = "active" THEN <<i>> ELSE <<>>) \o ActivePlatforms(P, i + 1)

\* The row WeeklyPlatformData.create receives for a missing week: one changePerWeek
\* above the closing value of the row before.
InterpolatedRow(platformId, currentWeek, before, after) ==
    LET weeksBetween == CeilDiv(after.weekStartDate - before.weekEndDate, DaysPerWeek)
        valueChange == RatSub(after.openingValue, before.closingValue)
        changePerWeek == RatDivInt(valueChange, weeksBetween)
        interpolatedValue == RatAdd(before.closingValue, changePerWeek)
    IN  [platformId |-> platformId, weekStartDate |-> currentWeek,
         weekEndDate |-> currentWeek + 6,
         openingValue |-> before.closingValue, closingValue |-> interpolatedValue,
         profitAmount |-> RatSub(interpolatedValue, before.closingValue),
         isInterpolated |-> TRUE, enteredBy |-> "none"]

\* POST /monthly-returns/calculate-from-weekly, to the first await of
\* interpolateMissingWeeks inside the loop over the active platforms.
CalculateFromWeekly(m) ==
    /\ LET queue == ActivePlatforms(platforms, 1)
           weeklyData == {i \in 1..Len(weekly) :
                             /\ weekly[i].weekStartDate >= firstDayOfMonth(m)
                             /\ weekly[i].weekEndDate <= lastDayOfMonth(m)}
       IN  StartOp([BaseOp("fromWeekly") EXCEPT
                       !.month = m, !.range = <<m, m>>,
                       !.weeksUsed = Cardinality(weeklyData),
                       !.queue = queue,
                       !.pc = IF queue = <<>> THEN "monthlyFromWeekly"
                              ELSE "interpExisting"], FALSE)
    /\ UNCHANGED <<now, ledger, platforms, monthlyReturns, weekly, auditLogs>>

\* The next platform of the loop: WeeklyPlatformData.find of its weeks that start
\* inside the range; currentWeek starts at startDate.
InterpExisting(k) ==
    /\ ops[k].pc = "interpExisting"
    /\ LET op == ops[k]
           platformId == Head(op.queue)
       IN  ops' = [ops EXCEPT ![k] =
                      [op EXCEPT !.existingWeeks =
                                     {weekly[i].weekStartDate :
                                         i \in {j \in 1..Len(weekly) :
                                                   /\ weekly[j].platformId = platformId
                                                   /\ weekly[j].weekStartDate >=
                                                          firstDayOfMonth(op.month)
                                                   /\ weekly[j].weekStartDate <=
                                                          lastDayOfMonth(op.month)}},
                                 !.currentWeek = firstDayOfMonth(op.month),
                                 !.pc = "interpFind"]]
    /\ UNCHANGED <<now, ledger, platforms, monthlyReturns, weekly, auditLogs, lastRun, rerun>>

\* currentWeek.setDate(currentWeek.getDate() + 7) and the tests of the two loops.
NextWeek(op) ==
    IF op.currentWeek + DaysPerWeek <= lastDayOfMonth(op.month)
    THEN [op EXCEPT !.currentWeek = @ + DaysPerWeek, !.pc = "interpFind"]
    ELSE IF Len(op.queue) > 1
         THEN [op EXCEPT !.queue = Tail(@), !.pc = "interpExisting"]
         ELSE [op EXCEPT !.queue = <<>>, !.interp = "ok", !.pc = "monthlyFromWeekly"]

\* One week of a loop that carries the last known value forward when no row follows
\* the missing week.
InterpFindExtrapolating(k) ==
    /\ ops[k].pc = "interpFind"
    /\ LET op == ops[k]
           platformId == Head(op.queue)
           before == RowsBefore(weekly, platformId, op.currentWeek)
           after == RowsAfter(weekly, platformId, op.currentWeek)
           last == weekly[LatestRow(weekly, before)]
       IN  ops' = [ops EXCEPT ![k] =
                      IF op.currentWeek \in op.existingWeeks \/ before = {}
                      THEN NextWeek(op)
                      ELSE [op EXCEPT !.pending =
                                          IF after = {}
                                          THEN [last EXCEPT !.weekStartDate = op.currentWeek,
                                                            !.weekEndDate = op.currentWeek + 6,
                                                            !.openingValue = last.closingValue,
                                                            !.profitAmount = RatZero,
                                                            !.isInterpolated = TRUE,
                                                            !.enteredBy = "none"]
                                          ELSE InterpolatedRow(platformId, op.currentWeek, last,
                                                               weekly[EarliestRow(weekly, after)]),
                                      !.pc = "interpCreate"]]
    /\ UNCHANGED <<now, ledger, platforms, monthlyReturns, weekly, auditLogs, lastRun, rerun>>

\* One week of the while loop: a week that is missing from existingWeeks looks for the
\* row before and the row after, and goes on to create a row when both exist.
InterpFind(k) ==
    /\ ops[k].pc = "interpFind"
    /\ LET op == ops[k]
           platformId == Head(op.queue)
           before == RowsBefore(weekly, platformId, op.currentWeek)
           after == RowsAfter(weekly, platformId, op.currentWeek)
       IN  ops' = [ops EXCEPT ![k] =
                      IF op.currentWeek \in op.existingWeeks \/ before = {} \/ after = {}
                      THEN NextWeek(op)
                      ELSE [op EXCEPT !.pending =
                                          InterpolatedRow(platformId, op.currentWeek,
                                                          weekly[LatestRow(weekly, before)],
                                                          weekly[EarliestRow(weekly, after)]),
                                      !.pc = "interpCreate"]]
    /\ UNCHANGED <<now, ledger, platforms, monthlyReturns, weekly, auditLogs, lastRun, rerun>>

\* await WeeklyPlatformData.create({...}): the unique index refuses a second row of
\* the platform's week, and the exception ends the handler.
InterpCreate(k) ==
    /\ ops[k].pc = "interpCreate"
    /\ LET op == ops[k]
           row == op.pending
       IN  IF UniqueWeekAllows(weekly, row.platformId, row.weekStartDate)
           THEN /\ weekly' = Append(weekly, row)
                /\ ops' = [ops EXCEPT ![k] =
                              NextWeek([op EXCEPT !.inserted = Append(@, row.weekStartDate)])]
           ELSE /\ ops' = [ops EXCEPT ![k] = [op EXCEPT !.interp = "threw",
                                                        !.pc = "respond"]]
                /\ UNCHANGED weekly
    /\ UNCHANGED <<now, ledger, platforms, monthlyReturns, auditLogs, lastRun, rerun>>

\* The rows of a platform that calculateMonthlyReturnFromWeekly reads: the earliest
\* that starts on or after the first day of the month, the latest that ends on or
\* before its last day.
FirstWeekOf(W, platformId, m) ==
    {i \in 1..Len(W) : W[i].platformId = platformId
                           /\ W[i].weekStartDate >= firstDayOfMonth(m)}
LastWeekOf(W, platformId, m) ==
    {i \in 1..Len(W) : W[i].platformId = platformId
                           /\ W[i].weekEndDate <= lastDayOfMonth(m)}

RECURSIVE RatSum(_)
RatSum(s) == IF s = <<>> THEN RatZero ELSE RatAdd(Head(s), RatSum(Tail(s)))

\* calculateMonthlyReturnFromWeekly(monthDate): ((end - start) / start) * 100 over the
\* active platforms that have both rows; 0 / 0 is NaN.
calculateMonthlyReturnFromWeekly(W, P, m) ==
    LET ids == ActivePlatforms(P, 1)
        both == SelectSeq(ids, LAMBDA id : FirstWeekOf(W, id, m) # {}
                                              /\ LastWeekOf(W, id, m) # {})
        totalMonthStart ==
            RatSum([j \in 1..Len(both) |->
                       W[EarliestRow(W, FirstWeekOf(W, both[j], m))].openingValue])
        totalMonthEnd ==
            RatSum([j \in 1..Len(both) |->
                       W[LatestRow(W, LastWeekOf(W, both[j], m))].closingValue])
    IN  IF totalMonthStart[1] = 0
        THEN [nan |-> TRUE, value |-> RatZero]
        ELSE [nan |-> FALSE,
              value |-> RatMulInt(RatDiv(RatSub(totalMonthEnd, totalMonthStart),
                                         totalMonthStart), 100)]

\* calculateMonthlyReturnFromWeekly, then the call
\* InvestmentCalculator.calculateMonthlyReturns(monthDate, monthlyReturn): the method
\* declares one parameter, monthDate.
MonthlyFromWeekly(k) ==
    /\ ops[k].pc = "monthlyFromWeekly"
    /\ ops' = [ops EXCEPT ![k] =
                  [@ EXCEPT !.monthlyReturn =
                                calculateMonthlyReturnFromWeekly(weekly, platforms,
                                                                 ops[k].month),
                            !.pc = "calcCorpus"]]
    /\ UNCHANGED <<now, ledger, platforms, monthlyReturns, weekly, auditLogs, lastRun, rerun>>

\* GET /corpus/overview: getCorpusAtDate(date), read only.
CorpusOverview(date) ==
    /\ LET corpusData == getCorpusAtDate(ledger, date)
       IN  StartOp([BaseOp("overview") EXCEPT !.corpusData = corpusData,
                                              !.fromDate = date,
                                              !.response = IF corpusData.err THEN 500
                                                           ELSE 200,
                                              !.pc = "done"], FALSE)
    /\ UNCHANGED <<now, ledger, platforms, monthlyReturns, weekly, auditLogs>>

\* ------------------------------------------------------------------ calculateMonthlyReturns
\* A loop that returns after the first month it has stored.
AfterMonthReturning(op) ==
    [op EXCEPT !.calcLog = Append(@, <<"end", op.month>>), !.calc = "ok", !.pc = "respond",
               !.monthsRecalculated = IF op.cascade THEN 1 ELSE -1]

\* The calculation of request k has stored its month: the loop of recalculateFromDate
\* goes on to the next month, or the call returns.
AfterMonth(op) ==
    LET logged == [op EXCEPT !.calcLog = Append(@, <<"end", op.month>>)]
    IN  IF op.cascade /\ op.month < op.range[2]
        THEN [logged EXCEPT !.month = op.month + 1, !.pc = "calcCorpus"]
        ELSE [logged EXCEPT !.calc = "ok", !.pc = "respond",
                            !.monthsRecalculated =
                                IF op.cascade THEN MonthsLength(op.range) ELSE -1]

\* The request's calculation has stored the collection as store.
Stored(k, store) ==
    LET op == AfterMonth(ops[k])
        book == Returned(op, k, store, lastRun)
    IN  /\ monthlyReturns' = store
        /\ ops' = [ops EXCEPT ![k] = op]
        /\ IF op.cascade /\ op.calc = "ok"
           THEN lastRun' = book[1] /\ rerun' = book[2]
           ELSE UNCHANGED <<lastRun, rerun>>

\* A cascade that reads the corpus for its first month and reuses it for the others.
CalcCorpusOnce(k) ==
    /\ ops[k].pc = "calcCorpus"
    /\ LET op == ops[k]
           corpusData == IF op.month > op.range[1]
                         THEN op.corpusData
                         ELSE getCorpusAtDate(ledger, endOfMonth(op.month))
           logged == [op EXCEPT !.calcLog = Append(@, <<"start", op.month>>),
                                !.corpusData = corpusData]
       IN  ops' = [ops EXCEPT ![k] =
                      IF corpusData.err
                      THEN [logged EXCEPT !.calc = "threw", !.pc = "respond"]
                      ELSE [logged EXCEPT !.pc = "calcPlatforms"]]
    /\ UNCHANGED <<now, ledger, platforms, monthlyReturns, weekly, auditLogs, lastRun, rerun>>

\* await this.getCorpusAtDate(endOfMonth)
CalcCorpus(k) ==
    /\ ops[k].pc = "calcCorpus"
    /\ LET op == ops[k]
           corpusData == getCorpusAtDate(ledger, endOfMonth(op.month))
           logged == [op EXCEPT !.calcLog = Append(@, <<"start", op.month>>),
                                !.corpusData = corpusData]
       IN  ops' = [ops EXCEPT ![k] =
                      IF corpusData.err
                      THEN [logged EXCEPT !.calc = "threw", !.pc = "respond"]
                      ELSE [logged EXCEPT !.pc = "calcPlatforms"]]
    /\ UNCHANGED <<now, ledger, platforms, monthlyReturns, weekly, auditLogs, lastRun, rerun>>

\* await this.getPlatformReturns(startOfMonth, endOfMonth)
CalcPlatforms(k) ==
    /\ ops[k].pc = "calcPlatforms"
    /\ LET op == ops[k]
       IN  ops' = [ops EXCEPT ![k] =
                      [op EXCEPT !.platformReturns =
                                     getPlatformReturns(platforms, startOfMonth(op.month),
                                                        endOfMonth(op.month)),
                                 !.pc = "calcUpsert"]]
    /\ UNCHANGED <<now, ledger, platforms, monthlyReturns, weekly, auditLogs, lastRun, rerun>>

OpDoc(op) == SnapshotDoc(op.month, op.corpusData, op.platformReturns, op.calculatedAt)

\* MonthlyReturn.findOneAndUpdate({month}, {...}, {upsert: true}): the store looks for
\* the month's document and updates it at once when there is one.
CalcUpsert(k) ==
    /\ ops[k].pc = "calcUpsert"
    /\ LET op == [ops[k] EXCEPT !.calculatedAt = now]
       IN  IF MatchingDocs(monthlyReturns, startOfMonth(op.month)) # {}
           THEN Stored(k, UpdateMatched(monthlyReturns, OpDoc(op)))
           ELSE /\ ops' = [ops EXCEPT ![k] = [op EXCEPT !.pc = "calcInsert"]]
                /\ UNCHANGED <<monthlyReturns, lastRun, rerun>>
    /\ UNCHANGED <<now, ledger, platforms, weekly, auditLogs>>

\* The insert of an upsert that matched nothing.  When another insert of the month got
\* in first the unique index refuses this one: the store retries it as an update, or
\* the driver raises E11000, by the server's version.
CalcInsert(k) ==
    /\ ops[k].pc = "calcInsert"
    /\ LET op == ops[k]
       IN  IF UniqueMonthAllows(monthlyReturns, OpDoc(op))
           THEN Stored(k, Append(monthlyReturns, OpDoc(op)))
           ELSE \E outcome \in {"retry", "E11000"} :
                   IF outcome = "retry"
                   THEN Stored(k, UpdateMatched(monthlyReturns, OpDoc(op)))
                   ELSE /\ ops' = [ops EXCEPT ![k] =
                                      [op EXCEPT !.calc = "threw", !.pc = "respond"]]
                        /\ UNCHANGED <<monthlyReturns, lastRun, rerun>>
    /\ UNCHANGED <<now, ledger, platforms, weekly, auditLogs>>

\* ------------------------------------------------------------------ responses
\* auditLogSchema: action is one of the enum, adminId and clientId are required.
AuditActions == {"view_pin", "reset_pin", "create_client"}
AuditLogValid(entry) ==
    entry.action \in AuditActions /\ entry.adminId # "none" /\ entry.clientId # "none"

AuditEntry(op) ==
    [adminId |-> "admin",
     action |-> CASE op.kind = "edit" -> "edit_investment"
                  [] op.kind = "delete" -> "delete_investment"
                  [] OTHER -> "manual_recalculation",
     clientId |-> IF op.kind \in {"edit", "delete"} THEN ledger[op.target].clientId
                  ELSE "none"]

\* The rest of the handler after the calculation: the catch blocks, AuditLog.create
\* and the response.
Respond(k) ==
    /\ ops[k].pc = "respond"
    /\ LET op == ops[k]
           audits == op.kind \in {"edit", "delete", "recalc"} /\ op.calc = "ok"
           audited == audits /\ AuditLogValid(AuditEntry(op))
           response ==
               CASE op.kind = "create" -> 201
                 [] op.calc = "threw" -> 500
                 [] op.interp = "threw" -> 500
                 [] audits /\ ~audited -> 500
                 [] op.kind = "platCreate" -> 201
                 [] OTHER -> 200
       IN  /\ auditLogs' = IF audited THEN Append(auditLogs, AuditEntry(op)) ELSE auditLogs
           /\ ops' = [ops EXCEPT ![k] = [op EXCEPT !.response = response, !.pc = "done"]]
    /\ UNCHANGED <<now, ledger, platforms, monthlyReturns, weekly, lastRun, rerun>>

\* Time passes: the clock reaches the next calendar month.
Tick ==
    /\ getMonth(now) < MaxMonth
    /\ now' = startOfMonth(getMonth(now) + 1)
    /\ UNCHANGED <<ledger, platforms, monthlyReturns, weekly, auditLogs, ops, lastRun, rerun>>

\* ------------------------------------------------------------------ specifications
\* The dates entered: the first day of every month, and of month 0 also the last day
\* at 00:00 and at a later time of day.
TxDates == {startOfMonth(m) : m \in Months} \cup {endOfMonth(0), lastInstantOfMonth(0)}
RecalcDates == {startOfMonth(m) : m \in Months}

Init ==
    /\ now = startOfMonth(1)
    /\ ledger = <<>>
    /\ platforms = <<>>
    /\ monthlyReturns = <<>>
    /\ weekly = <<>>
    /\ auditLogs = <<>>
    /\ ops = <<>>
    /\ lastRun = NoRun
    /\ rerun = NoRerun

\* The inputs of the concurrent specification: deposits of existing clients dated on
\* the first day of a month that has begun.
ConcDates == {startOfMonth(0), startOfMonth(1)}
ConcAmounts == {1}
ConcEdits == {2}
ConcPlatformValues == {120}
\* The weeks entered in the specifications of the whole engine.
EntryWeeks == {w \in Weeks : w <= 1}

\* A behaviour serves MaxOps requests.
Admit == Len(ops) < MaxOps

\* Requests are served concurrently: the handlers are async and interleave at every await.
Next ==
    \/ \E c \in Users, a \in ConcAmounts, d \in ConcDates : Admit /\ CreateInvestment(c, a, d, "deposit")
    \/ \E id \in 1..MaxTx, a \in ConcEdits : Admit /\ EditInvestment(id, a)
    \/ \E id \in 1..MaxTx : Admit /\ DeleteInvestment(id)
    \/ \E d \in RecalcDates : Admit /\ Recalculate(d)
    \/ \E a \in PlatformAmounts, d \in ConcDates : Admit /\ AddPlatformInvestment(a, d)
    \/ \E id \in 1..MaxPlatforms, r \in ReturnPercentages, v \in ConcPlatformValues :
           Admit /\ UpdatePlatformReturns(id, r, v)
    \/ \E id \in 1..MaxPlatforms, w \in EntryWeeks, v \in WeeklyClosingValues :
           Admit /\ EnterWeeklyData(id, WeekStart(w), v)
    \/ \E d \in ConcDates : Admit /\ CorpusOverview(d)
    \/ \E k \in DOMAIN ops : CalcCorpus(k)
    \/ \E k \in DOMAIN ops : CalcPlatforms(k)
    \/ \E k \in DOMAIN ops : CalcUpsert(k)
    \/ \E k \in DOMAIN ops : CalcInsert(k)
    \/ \E k \in DOMAIN ops : Respond(k)
    \/ Tick

Spec == Init /\ [][Next]_vars

\* One admin action at a time: a request begins when every earlier one has responded.
NextSeq ==
    \/ \E c \in ClientIds, a \in Amounts, d \in TxDates, t \in Types :
           Admit /\ AllDone /\ CreateInvestment(c, a, d, t)
    \/ \E id \in 1..MaxTx, a \in Amounts : Admit /\ AllDone /\ EditInvestment(id, a)
    \/ \E id \in 1..MaxTx : Admit /\ AllDone /\ DeleteInvestment(id)
    \/ \E d \in RecalcDates : Admit /\ AllDone /\ Recalculate(d)
    \/ \E a \in PlatformAmounts, d \in RecalcDates : Admit /\ AllDone /\ AddPlatformInvestment(a, d)
    \/ \E id \in 1..MaxPlatforms, r \in ReturnPercentages, v \in PlatformValues :
           Admit /\ AllDone /\ UpdatePlatformReturns(id, r, v)
    \/ \E id \in 1..MaxPlatforms, w \in EntryWeeks, v \in WeeklyClosingValues :
           Admit /\ AllDone /\ EnterWeeklyData(id, WeekStart(w), v)
    \/ \E d \in TxDates : Admit /\ AllDone /\ CorpusOverview(d)
    \/ \E k \in DOMAIN ops : CalcCorpus(k)
    \/ \E k \in DOMAIN ops : CalcPlatforms(k)
    \/ \E k \in DOMAIN ops : CalcUpsert(k)
    \/ \E k \in DOMAIN ops : CalcInsert(k)
    \/ \E k \in DOMAIN ops : Respond(k)
    \/ Tick

SpecSeq == Init /\ [][NextSeq]_vars

\* The engine with the weekly data of one platform.  The store starts empty, or as
\* the requests of an earlier day left it: a deposit and a platform allocation dated in
\* month 0 with the snapshots their recalculations stored, and up to MaxEntries weekly
\* rows entered one after the other through POST /platforms/weekly-data.
RECURSIVE EnterRows(_, _, _)
EnterRows(W, P, entries) ==
    IF entries = <<>> THEN <<W, P>>
    ELSE LET e == Head(entries)
         IN  EnterRows(Append(W, EnteredRow(W, P, 1, WeekStart(e[1]), e[2])),
                       [P EXCEPT ![1].currentValue = e[2]], Tail(entries))

EntrySeqs ==
    {e \in UNION {[1..n -> Weeks \X WeeklyClosingValues] : n \in 0..MaxEntries} :
        \A i, j \in DOMAIN e : i # j => e[i][1] # e[j][1]}

InitWeekly ==
    \/ Init
    \/ \E entries \in EntrySeqs, a \in PlatformAmounts :
           LET L == <<NewInvestment("c1", 1, startOfMonth(0), "deposit")>>
               P == <<[amount |-> a, investmentDate |-> startOfMonth(0),
                       returnPercentage |-> 0, currentValue |-> a, status |-> "active"]>>
               entered == EnterRows(<<>>, P, entries)
           IN  /\ now = startOfMonth(1)
               /\ ledger = L
               /\ platforms = entered[2]
               /\ weekly = entered[1]
               /\ monthlyReturns =
                      [i \in 1..2 |->
                          SnapshotDoc(i - 1, getCorpusAtDate(L, endOfMonth(i - 1)),
                                      getPlatformReturns(P, startOfMonth(i - 1),
                                                         endOfMonth(i - 1)), now)]
               /\ auditLogs = <<>>
               /\ ops = <<>>
               /\ lastRun = NoRun
               /\ rerun = NoRerun

\* Weekly data entry and calculate-from-weekly requests are served concurrently; a
\* request that changes the ledger or a platform's returns begins when every earlier
\* request has responded.
NextWeekly ==
    \/ \E c \in Users, a \in ConcAmounts, d \in ConcDates :
           Admit /\ AllDone /\ CreateInvestment(c, a, d, "deposit")
    \/ \E id \in 1..MaxTx, a \in ConcEdits : Admit /\ AllDone /\ EditInvestment(id, a)
    \/ \E id \in 1..MaxTx : Admit /\ AllDone /\ DeleteInvestment(id)
    \/ \E d \in ConcDates : Admit /\ AllDone /\ Recalculate(d)
    \/ \E a \in PlatformAmounts, d \in ConcDates : Admit /\ AllDone /\ AddPlatformInvestment(a, d)
    \/ \E id \in 1..MaxPlatforms, r \in ReturnPercentages, v \in ConcPlatformValues :
           Admit /\ AllDone /\ UpdatePlatformReturns(id, r, v)
    \/ \E id \in 1..MaxPlatforms, r \in ReturnPercentages : Admit /\ AllDone /\ BulkUpdate(id, r)
    \/ \E d \in ConcDates : Admit /\ AllDone /\ CorpusOverview(d)
    \/ \E w \in Weeks, v \in WeeklyClosingValues : Admit /\ EnterWeeklyData(1, WeekStart(w), v)
    \/ \E m \in Months : Admit /\ CalculateFromWeekly(m)
    \/ \E k \in DOMAIN ops : InterpExisting(k)
    \/ \E k \in DOMAIN ops : InterpFind(k)
    \/ \E k \in DOMAIN ops : InterpCreate(k)
    \/ \E k \in DOMAIN ops : MonthlyFromWeekly(k)
    \/ \E k \in DOMAIN ops : CalcCorpus(k)
    \/ \E k \in DOMAIN ops : CalcPlatforms(k)
    \/ \E k \in DOMAIN ops : CalcUpsert(k)
    \/ \E k \in DOMAIN ops : CalcInsert(k)
    \/ \E k \in DOMAIN ops : Respond(k)

SpecWeekly == InitWeekly /\ [][NextWeekly]_vars

\* The platform store drawn from bounded sets: up to MaxDrawn platforms dated in
\* month 0, each with the returnPercentage and currentValue its last update left, and the
\* snapshots stored by the platforms' creation (month 0) and by the last update (month 1).
\* A platform may have been closed since (the schema's status; no route sets it).
DrawnReturns == {0, 10, 20}
DrawnValues == {0, 100, 300}
DrawnPlatforms ==
    UNION {[1..n -> [amount : PlatformAmounts, investmentDate : {startOfMonth(0)},
                     returnPercentage : DrawnReturns, currentValue : DrawnValues,
                     status : {"active", "closed"}]] : n \in 1..MaxDrawn}

InitPlatforms ==
    \E P \in DrawnPlatforms :
        LET created == [i \in 1..Len(P) |-> [P[i] EXCEPT !.returnPercentage = 0,
                                                         !.currentValue = P[i].amount,
                                                         !.status = "active"]]
            updated == [i \in 1..Len(P) |-> [P[i] EXCEPT !.status = "active"]]
        IN  /\ now = startOfMonth(1)
            /\ ledger = <<>>
            /\ platforms = P
            /\ monthlyReturns =
                   <<SnapshotDoc(0, NoCorpus,
                                 getPlatformReturns(created, startOfMonth(0), endOfMonth(0)),
                                 now),
                     SnapshotDoc(1, NoCorpus,
                                 getPlatformReturns(updated, startOfMonth(1), endOfMonth(1)),
                                 now)>>
            /\ weekly = <<>>
            /\ auditLogs = <<>>
            /\ ops = <<>>
            /\ lastRun = NoRun
            /\ rerun = NoRerun

\* Deposits, recalculations and platform updates on the drawn store, one at a time.
NextPlatforms ==
    \/ \E c \in Users, a \in ConcAmounts :
           Admit /\ AllDone /\ CreateInvestment(c, a, startOfMonth(0), "deposit")
    \/ \E id \in 1..MaxTx : Admit /\ AllDone /\ DeleteInvestment(id)
    \/ \E d \in RecalcDates : Admit /\ AllDone /\ Recalculate(d)
    \/ \E r \in ReturnPercentages, v \in ConcPlatformValues :
           Admit /\ AllDone /\ UpdatePlatformReturns(1, r, v)
    \/ \E k \in DOMAIN ops : CalcCorpus(k)
    \/ \E k \in DOMAIN ops : CalcPlatforms(k)
    \/ \E k \in DOMAIN ops : CalcUpsert(k)
    \/ \E k \in DOMAIN ops : CalcInsert(k)
    \/ \E k \in DOMAIN ops : Respond(k)
    \/ Tick

SpecPlatforms == InitPlatforms /\ [][NextPlatforms]_vars

\* Recalculations, deposits and platform allocations that overlap, from the empty
\* store: up to MaxOverlap requests, every one free to begin while the others run.
OverlapDates == {startOfMonth(0), startOfMonth(1)}

NextReads ==
    \/ \E d \in OverlapDates : Recalculate(d)
    \/ \E d \in OverlapDates : CreateInvestment("c1", 1, d, "deposit")
    \/ \E a \in PlatformAmounts, d \in OverlapDates : AddPlatformInvestment(a, d)
    \/ \E k \in DOMAIN ops : CalcCorpus(k)
    \/ \E k \in DOMAIN ops : CalcPlatforms(k)
    \/ \E k \in DOMAIN ops : CalcUpsert(k)
    \/ \E k \in DOMAIN ops : CalcInsert(k)
    \/ \E k \in DOMAIN ops : Respond(k)

SpecReads == Init /\ [][NextReads]_vars

\* The drawn platform store with platforms dated in month 0 or in month 1, and a
\* cascade that overlaps a platform update: the handlers are async, and the update's
\* save can land between two months of the cascade.
DatedReturns == {0, 20}
DatedValues == {100, 300}
DatedPlatforms ==
    UNION {[1..n -> [amount : PlatformAmounts, investmentDate : OverlapDates,
                     returnPercentage : DatedReturns, currentValue : DatedValues,
                     status : {"active", "closed"}]] : n \in 1..MaxDrawn}

InitCascade ==
    \E P \in DatedPlatforms :
        LET created == [i \in 1..Len(P) |-> [P[i] EXCEPT !.returnPercentage = 0,
                                                         !.currentValue = P[i].amount,
                                                         !.status = "active"]]
            updated == [i \in 1..Len(P) |-> [P[i] EXCEPT !.status = "active"]]
        IN  /\ now = startOfMonth(1)
            /\ ledger = <<>>
            /\ platforms = P
            /\ monthlyReturns =
                   <<SnapshotDoc(0, NoCorpus,
                                 getPlatformReturns(created, startOfMonth(0), endOfMonth(0)),
                                 now),
                     SnapshotDoc(1, NoCorpus,
                                 getPlatformReturns(updated, startOfMonth(1), endOfMonth(1)),
                                 now)>>
            /\ weekly = <<>>
            /\ auditLogs = <<>>
            /\ ops = <<>>
            /\ lastRun = NoRun
            /\ rerun = NoRerun

NextCascade ==
    \/ \E d \in RecalcDates : Admit /\ Recalculate(d)
    \/ \E r \in ReturnPercentages, v \in ConcPlatformValues :
           Admit /\ UpdatePlatformReturns(1, r, v)
    \/ \E k \in DOMAIN ops : CalcCorpus(k)
    \/ \E k \in DOMAIN ops : CalcPlatforms(k)
    \/ \E k \in DOMAIN ops : CalcUpsert(k)
    \/ \E k \in DOMAIN ops : CalcInsert(k)
    \/ \E k \in DOMAIN ops : Respond(k)
    \/ Tick

SpecCascade == InitCascade /\ [][NextCascade]_vars

\* Edits and cancellations of one deposit, overlapping: the deposit is made, and the
\* edits interleave at the awaits of the handler.
EditAmounts == {2, 3}
NextEdits ==
    \/ CreateInvestment("c1", 1, startOfMonth(1), "deposit")
    \/ \E id \in 1..MaxTx, a \in EditAmounts : EditFind(id, a)
    \/ \E k \in DOMAIN ops : EditSave(k)
    \/ \E id \in 1..MaxTx : DeleteInvestment(id)
    \/ \E k \in DOMAIN ops : CalcCorpus(k)
    \/ \E k \in DOMAIN ops : CalcPlatforms(k)
    \/ \E k \in DOMAIN ops : CalcUpsert(k)
    \/ \E k \in DOMAIN ops : CalcInsert(k)
    \/ \E k \in DOMAIN ops : Respond(k)

SpecEdits == Init /\ [][NextEdits]_vars

\* Time passes within the month: the clock reaches the next instant.
Advance ==
    /\ now < MaxInstant
    /\ now' = now + 1
    /\ UNCHANGED <<ledger, platforms, monthlyReturns, weekly, auditLogs, ops, lastRun, rerun>>

\* Recalculations, platform allocations and platform updates, one at a time, at any
\* time of the month and from any date.
KeyDates == {lastInstantOfMonth(0), startOfMonth(1), startOfMonth(1) + 1}
NextKeys ==
    \/ \E d \in KeyDates : AllDone /\ Recalculate(d)
    \/ \E a \in PlatformAmounts, d \in KeyDates : AllDone /\ AddPlatformInvestment(a, d)
    \/ \E r \in ReturnPercentages, v \in ConcPlatformValues :
           AllDone /\ UpdatePlatformReturns(1, r, v)
    \/ \E k \in DOMAIN ops : CalcCorpus(k)
    \/ \E k \in DOMAIN ops : CalcPlatforms(k)
    \/ \E k \in DOMAIN ops : CalcUpsert(k)
    \/ \E k \in DOMAIN ops : CalcInsert(k)
    \/ \E k \in DOMAIN ops : Respond(k)
    \/ Advance

SpecKeys == Init /\ [][NextKeys]_vars

\* The weekly data of two platforms.  The store starts as the requests of an earlier day
\* left it: a deposit and two platform allocations dated in month 0 with the snapshots
\* their recalculations stored, and up to three weekly rows entered one after the other,
\* of platform 1 for weeks 0 and 3 and of platform 2 for week 1.
PairClosingValues == {120, 150}
PairEntries == {<<1, 0>>, <<1, 3>>, <<2, 1>>}

RECURSIVE EnterRowsOf(_, _, _)
EnterRowsOf(W, P, entries) ==
    IF entries = <<>> THEN <<W, P>>
    ELSE LET e == Head(entries)
         IN  EnterRowsOf(Append(W, EnteredRow(W, P, e[1][1], WeekStart(e[1][2]), e[2])),
                         [P EXCEPT ![e[1][1]].currentValue = e[2]], Tail(entries))

PairEntrySeqs ==
    {e \in UNION {[1..n -> PairEntries \X PairClosingValues] :
                     n \in 0..Cardinality(PairEntries)} :
        \A i, j \in DOMAIN e : i # j => e[i][1] # e[j][1]}

InitPair ==
    \E entries \in PairEntrySeqs, a \in PlatformAmounts :
        LET L == <<NewInvestment("c1", 1, startOfMonth(0), "deposit")>>
            P == [i \in 1..2 |->
                     [amount |-> a, investmentDate |-> startOfMonth(0),
                      returnPercentage |-> 0, currentValue |-> a, status |-> "active"]]
            entered == EnterRowsOf(<<>>, P, entries)
        IN  /\ now = startOfMonth(1)
            /\ ledger = L
            /\ platforms = entered[2]
            /\ weekly = entered[1]
            /\ monthlyReturns =
                   [i \in 1..2 |->
                       SnapshotDoc(i - 1, getCorpusAtDate(L, endOfMonth(i - 1)),
                                   getPlatformReturns(P, startOfMonth(i - 1),
                                                      endOfMonth(i - 1)), now)]
            /\ auditLogs = <<>>
            /\ ops = <<>>
            /\ lastRun = NoRun
            /\ rerun = NoRerun

\* Weekly data entry for either platform and calculate-from-weekly, served
\* concurrently.
NextPair ==
    \/ \E id \in 1..2, w \in Weeks, v \in PairClosingValues :
           Admit /\ EnterWeeklyData(id, WeekStart(w), v)
    \/ \E m \in Months : Admit /\ CalculateFromWeekly(m)
    \/ \E k \in DOMAIN ops : InterpExisting(k)
    \/ \E k \in DOMAIN ops : InterpFind(k)
    \/ \E k \in DOMAIN ops : InterpCreate(k)
    \/ \E k \in DOMAIN ops : MonthlyFromWeekly(k)
    \/ \E k \in DOMAIN ops : CalcCorpus(k)
    \/ \E k \in DOMAIN ops : CalcPlatforms(k)
    \/ \E k \in DOMAIN ops : CalcUpsert(k)
    \/ \E k \in DOMAIN ops : CalcInsert(k)
    \/ \E k \in DOMAIN ops : Respond(k)

SpecPair == InitPair /\ [][NextPair]_vars

\* ------------------------------------------------------------------ properties
\* The signed sum of the active transactions of the clients in cs dated on or before
\* date, summed over the ledger's entries one by one.
RECURSIVE ActiveSignedSum(_, _, _, _)
ActiveSignedSum(L, date, cs, i) ==
    IF i > Len(L) THEN 0
    ELSE (IF /\ L[i].status = "active"
             /\ L[i].investmentDate <= date
             /\ L[i].clientId \in cs
          THEN (IF L[i].type = "deposit" THEN L[i].amount ELSE 0 - L[i].amount)
          ELSE 0) + ActiveSignedSum(L, date, cs, i + 1)

\* The stored snapshots of month m.
SnapshotsOf(coll, m) == {coll[i] : i \in MatchingDocs(coll, startOfMonth(m))}

\* The months request op has calculated to the end.
CalculatedMonths(op) ==
    {op.calcLog[i][2] : i \in {j \in 1..Len(op.calcLog) : op.calcLog[j][1] = "end"}}

\* C1 (as claimed): after a transaction dated in month M1 is edited and
\* recalculateFromDate has returned, with no other operation interleaved, every
\* month M from M1 to the current month has a snapshot whose totalCorpus is the signed
\* sum of the active transactions dated on or before the end of M in the edited ledger.
C1_EditCascadesCorpus ==
    \A k \in DOMAIN ops :
        (k = Len(ops) /\ ops[k].kind = "edit" /\ ops[k].calc = "ok") =>
            \A m \in MonthsOf(ops[k].range) :
                /\ SnapshotsOf(monthlyReturns, m) # {}
                /\ \A doc \in SnapshotsOf(monthlyReturns, m) :
                       doc.totalCorpus =
                           ActiveSignedSum(ledger, lastInstantOfMonth(m), ClientIds, 1)

\* What the code does there: the cutoff of month M is the last day of M at 00:00.
EditCascadesCorpusToLastMidnight ==
    \A k \in DOMAIN ops :
        (k = Len(ops) /\ ops[k].kind = "edit" /\ ops[k].calc = "ok") =>
            \A m \in MonthsOf(ops[k].range) :
                /\ SnapshotsOf(monthlyReturns, m) # {}
                /\ \A doc \in SnapshotsOf(monthlyReturns, m) :
                       doc.totalCorpus =
                           ActiveSignedSum(ledger, endOfMonth(m), ClientIds, 1)

\* The calls of calculateMonthlyReturns a run over the months f..l makes when every
\* one returns: each month started and ended before the next, in ascending order.
ExpectedLog(f, l) ==
    [i \in 1..(IF l >= f THEN 2 * (l - f + 1) ELSE 0) |->
        <<IF i % 2 = 1 THEN "start" ELSE "end", f + ((i - 1) \div 2)>>]

IsPrefix(s, t) == Len(s) <= Len(t) /\ \A i \in 1..Len(s) : s[i] = t[i]

\* C2: recalculateFromDate(fromDate) calls the monthly calculation once for each month
\* from fromDate's month to the month of the clock at the call, ascending, each call
\* ending before the next starts, and returns the number of those months (none, and 0,
\* when fromDate's month is after the current month).
C2_CascadeMonthsInOrder ==
    \A k \in DOMAIN ops :
        ops[k].cascade =>
            LET op == ops[k]
                f == getMonth(op.fromDate)
                l == getMonth(op.startedAt)
            IN  /\ IsPrefix(op.calcLog, ExpectedLog(f, l))
                /\ op.calc = "ok" =>
                       /\ op.calcLog = ExpectedLog(f, l)
                       /\ op.monthsRecalculated = Cardinality({m \in Months : f <= m /\ m <= l})
                /\ op.monthsRecalculated # -1 => op.calc = "ok"

\* A run over two months has returned, and so has a run from a month not yet begun.
C2_Witness ==
    /\ \E k \in DOMAIN ops : ops[k].cascade /\ ops[k].calc = "ok"
                             /\ ops[k].monthsRecalculated = 2
    /\ \E k \in DOMAIN ops : ops[k].cascade /\ ops[k].calc = "ok"
                             /\ ops[k].monthsRecalculated = 0 /\ ops[k].calcLog = <<>>
                             /\ getMonth(ops[k].fromDate) > getMonth(ops[k].startedAt)

\* A snapshot without the time of its calculation.
ComputedFields(doc) == [doc EXCEPT !.calculatedAt = 0]

\* C3 (as claimed): a second recalculateFromDate(d) right after a first, nothing mutated
\* in between, leaves every stored field of every snapshot of the first run's months
\* as the first run stored it.
C3_RerunIdenticalDocuments ==
    rerun.valid =>
        \A m \in MonthsOf(rerun.range) :
            SnapshotsOf(rerun.second, m) = SnapshotsOf(rerun.first, m)

\* C3 (amended): the second run leaves every stored field except calculatedAt, the
\* time of the calculation, as the first run stored it.
C3_RerunSameComputedFields ==
    rerun.valid =>
        \A m \in MonthsOf(rerun.range) :
            {ComputedFields(doc) : doc \in SnapshotsOf(rerun.second, m)} =
                {ComputedFields(doc) : doc \in SnapshotsOf(rerun.first, m)}

\* A second run has rewritten, at a later time, a snapshot that holds a client's return.
C3_Witness ==
    /\ rerun.valid
    /\ \E m \in MonthsOf(rerun.range) :
           \E a \in SnapshotsOf(rerun.first, m), b \in SnapshotsOf(rerun.second, m) :
               /\ a.clientReturns # <<>>
               /\ a.calculatedAt # b.calculatedAt

\* C4: in every stored snapshot the investmentShare of the client entries sum to the
\* snapshot's totalCorpus.
C4_SharesSumToCorpus ==
    \A i \in DOMAIN monthlyReturns :
        SumSeq([j \in 1..Len(monthlyReturns[i].clientReturns) |->
                   monthlyReturns[i].clientReturns[j].investmentShare])
            = monthlyReturns[i].totalCorpus

\* A stored snapshot of two clients, one of them with a net withdrawal.
C4_Witness ==
    \E i \in DOMAIN monthlyReturns :
        /\ Len(monthlyReturns[i].clientReturns) = 2
        /\ \E j \in 1..2 : monthlyReturns[i].clientReturns[j].investmentShare < 0

\* Every deleted transaction is still in the ledger, cancelled, and getCorpusAtDate
\* counts active transactions only, in the total and in every client's total.
C5_State ==
    /\ \A k \in DOMAIN ops :
           (ops[k].kind = "delete" /\ ops[k].saved) =>
               /\ ops[k].target \in DOMAIN ledger
               /\ ledger[ops[k].target].status = "cancelled"
    /\ \A d \in Instants :
           LET corpusData == getCorpusAtDate(ledger, d)
           IN  ~corpusData.err =>
                   /\ corpusData.totalCorpus = ActiveSignedSum(ledger, d, ClientIds, 1)
                   /\ \A j \in 1..Len(corpusData.clientShares) :
                          corpusData.clientShares[j].totalInvestment =
                              ActiveSignedSum(ledger, d,
                                              {corpusData.clientShares[j].clientId}, 1)

\* The indices of the snapshots a step wrote.
Written == {i \in DOMAIN monthlyReturns' :
                i \notin DOMAIN monthlyReturns \/ monthlyReturns'[i] # monthlyReturns[i]}

\* No step removes a transaction or makes a cancelled one active, and every snapshot
\* a step stores counts active transactions only.
C5_Step ==
    /\ Len(ledger') >= Len(ledger)
    /\ \A i \in DOMAIN ledger :
           ledger[i].status = "cancelled" => ledger'[i].status = "cancelled"
    /\ \A i \in Written :
           LET doc == monthlyReturns'[i]
               cutoff == endOfMonth(getMonth(doc.month))
           IN  /\ doc.totalCorpus = ActiveSignedSum(ledger', cutoff, ClientIds, 1)
               /\ \A j \in 1..Len(doc.clientReturns) :
                      doc.clientReturns[j].investmentShare =
                          ActiveSignedSum(ledger', cutoff, {doc.clientReturns[j].clientId}, 1)

\* C5: a deleted transaction stays in the ledger with status 'cancelled' (the ledger
\* never shrinks), and from then on contributes nothing to the totalCorpus or to a
\* client's totalInvestment of getCorpusAtDate or of a snapshot computed afterwards.
C5_SoftDeleteExcluded == [](C5_State) /\ [][C5_Step]_vars

\* A delete has cancelled a transaction of an existing client, and its recalculation
\* has stored a snapshot of a month the transaction is dated in or before.
C5_Witness ==
    \E k \in DOMAIN ops :
        /\ ops[k].kind = "delete" /\ ops[k].calc = "ok" /\ ops[k].pc = "done"
        /\ CalculatedMonths(ops[k]) # {}
        /\ ledger[ops[k].target].status = "cancelled"
        /\ ledger[ops[k].target].clientId \in Users
        /\ ledger[ops[k].target].investmentDate <= endOfMonth(ops[k].range[1])

\* At most one stored snapshot per month.
C6_State == \A m \in Months : Cardinality(MatchingDocs(monthlyReturns, startOfMonth(m))) <= 1

\* A calculation whose upsert finds its month stored replaces that record: the
\* collection keeps its size, the calculation does not throw, and the month's record
\* is the one this calculation computed.
C6_Step ==
    \A k \in DOMAIN ops :
        (/\ ops[k].pc = "calcUpsert"
         /\ ops'[k].pc # "calcUpsert"
         /\ MatchingDocs(monthlyReturns, startOfMonth(ops[k].month)) # {}) =>
            /\ Len(monthlyReturns') = Len(monthlyReturns)
            /\ ops'[k].calc # "threw"
            /\ SnapshotsOf(monthlyReturns', ops[k].month) =
                   {SnapshotDoc(ops[k].month, ops[k].corpusData, ops[k].platformReturns, now)}

EffectiveMonth(op) ==
    CASE op.kind \in {"create", "edit", "delete"} -> getMonth(ledger[op.target].investmentDate)
      [] op.kind = "platCreate" -> getMonth(platforms[op.target].investmentDate)
      [] OTHER -> getMonth(op.startedAt)

\* The months a persisted mutation affects, up to the month of the request: those from
\* its effective month on and, for a platform, those whose calculation selects it.
AffectedMonths(op) ==
    {m \in Months :
        /\ EffectiveMonth(op) <= m
        /\ m <= getMonth(op.startedAt)
        /\ op.kind \in {"platCreate", "platUpdate", "weekly"} =>
               platforms[op.target].investmentDate <= endOfMonth(m)}

\* C7 (as claimed): every persisted mutation - new transaction, edit, cancellation,
\* platform creation, platform return or value update - whose request has ended without
\* a failed calculation has recalculated every month from its effective date through
\* the current month.
C7_MutationsRecalculate ==
    \A k \in DOMAIN ops :
        (/\ ops[k].pc = "done"
         /\ ops[k].saved
         /\ ops[k].kind \in {"create", "edit", "delete", "platCreate", "platUpdate", "weekly"}
         /\ ops[k].calc # "threw") =>
            AffectedMonths(ops[k]) \subseteq CalculatedMonths(ops[k])

\* C8 (as claimed): when the recalculation after a persisted transaction creation, edit
\* or cancellation or platform creation fails, the mutation stays persisted and the
\* request reports success.
C8_RecalcFailureNotFatal ==
    \A k \in DOMAIN ops :
        (/\ ops[k].pc = "done"
         /\ ops[k].saved
         /\ ops[k].kind \in {"create", "edit", "delete", "platCreate"}
         /\ ops[k].calc = "threw") =>
            /\ ops[k].response \in {200, 201}
            /\ ops[k].kind = "platCreate" => ops[k].target \in DOMAIN platforms
            /\ ops[k].kind # "platCreate" => ops[k].target \in DOMAIN ledger

\* C9 (as claimed): when a month's calculation fails inside recalculateFromDate, the
\* controller reports the number of months it completed before the failure.
C9_FailureReportsCompleted ==
    \A k \in DOMAIN ops :
        (ops[k].cascade /\ ops[k].calc = "threw") =>
            ops[k].monthsRecalculated = Cardinality(CalculatedMonths(ops[k]))

\* C10 (as claimed): getCorpusAtDate does not fail when a transaction names a client
\* that does not exist; it skips the transaction and returns the corpus and the shares
\* of the existing clients.
C10_UnknownClientSkipped ==
    \A k \in DOMAIN ops :
        (ops[k].kind = "overview" /\ k = Len(ops)) =>
            LET corpusData == ops[k].corpusData
            IN  /\ ops[k].response = 200
                /\ ~corpusData.err
                /\ corpusData.totalCorpus = ActiveSignedSum(ledger, ops[k].fromDate, Users, 1)
                /\ \A j \in 1..Len(corpusData.clientShares) :
                       /\ corpusData.clientShares[j].clientId \in Users
                       /\ corpusData.clientShares[j].totalInvestment =
                              ActiveSignedSum(ledger, ops[k].fromDate,
                                              {corpusData.clientShares[j].clientId}, 1)

\* The request whose calculation stores a snapshot in this step.
Storing(k) ==
    /\ ops[k].pc \in {"calcUpsert", "calcInsert"}
    /\ ops'[k].pc \notin {"calcUpsert", "calcInsert"}
    /\ ops'[k].calc # "threw"

\* C11 (as claimed): when calculate-from-weekly calls calculateMonthlyReturns for a
\* month with the return percentage p it derived from the weekly data, the snapshot
\* stored has monthlyReturnPercentage = p and every client's returnAmount is
\* investmentShare * p / 100.
C11_PrecomputedReturnStored ==
    [][\A k \in DOMAIN ops :
           (/\ ops[k].kind = "fromWeekly"
            /\ Storing(k)
            /\ ~ops[k].monthlyReturn.nan) =>
               LET p == ops[k].monthlyReturn.value
               IN  \A doc \in SnapshotsOf(monthlyReturns', ops[k].month) :
                       /\ doc.monthlyReturnPercentage = p
                       /\ \A j \in 1..Len(doc.clientReturns) :
                              doc.clientReturns[j].returnAmount =
                                  Rat(doc.clientReturns[j].investmentShare * p[1],
                                      p[2] * 100)]_vars

\* The active transactions dated on or before an instant.
ActiveBefore(L, date) ==
    {i \in 1..Len(L) : L[i].status = "active" /\ L[i].investmentDate <= date}

\* What getCorpusAtDate returned is 0 with no share when no active transaction is
\* dated on or before the date, and has every sharePercentage 0 when the total is 0.
ZeroCorpusHandled(L, date, corpusData) ==
    /\ corpusData.totalCorpus \in Int
    /\ ActiveBefore(L, date) = {} =>
           corpusData.totalCorpus = 0 /\ corpusData.clientShares = <<>>
    /\ corpusData.totalCorpus = 0 =>
           \A j \in 1..Len(corpusData.clientShares) :
               corpusData.clientShares[j].sharePercentage = 0
    /\ ActiveBefore(L, date) # {} => corpusData.clientShares # <<>>

\* C12: getCorpusAtDate(date), when it returns, gives totalCorpus 0 and no share when
\* no active transaction is dated on or before date; when active transactions net to
\* a corpus of 0 every client's sharePercentage is 0; totalCorpus is always a number.
C12_ZeroCorpus ==
    /\ \A d \in Instants :
           ~getCorpusAtDate(ledger, d).err =>
               ZeroCorpusHandled(ledger, d, getCorpusAtDate(ledger, d))
    /\ \A k \in DOMAIN ops :
           (ops[k].pc = "calcPlatforms" /\ ops[k].clean) =>
               ZeroCorpusHandled(ledger, endOfMonth(ops[k].month), ops[k].corpusData)

\* A calculation has read a corpus of 0 made of two clients' active transactions.
C12_Witness ==
    \E k \in DOMAIN ops :
        /\ ops[k].pc = "calcPlatforms"
        /\ ops[k].corpusData.totalCorpus = 0
        /\ Len(ops[k].corpusData.clientShares) = 2
        /\ \E j \in 1..2 : ops[k].corpusData.clientShares[j].totalInvestment > 0

\* Every client entry of every stored snapshot has returnAmount =
\* investmentShare * monthlyReturnPercentage / 100 and closingBalance =
\* investmentShare + returnAmount.
ClientReturnsFormula ==
    \A i \in DOMAIN monthlyReturns :
        LET doc == monthlyReturns[i]
        IN  \A j \in 1..Len(doc.clientReturns) :
                LET entry == doc.clientReturns[j]
                IN  /\ entry.returnAmount =
                           RatDivInt(RatMulInt(doc.monthlyReturnPercentage,
                                               entry.investmentShare), 100)
                    /\ entry.closingBalance =
                           RatAdd(<<entry.investmentShare, 1>>, entry.returnAmount)

\* The snapshot a step stores for a month holds, for every client, the client's net
\* active investment up to the cutoff of that month, and is the same whatever the
\* collection held for the month before.
ClientReturnsFromLedger(cutoff(_)) ==
    \A k \in DOMAIN ops :
        Storing(k) =>
            \A doc \in SnapshotsOf(monthlyReturns', ops[k].month) :
                /\ \A j \in 1..Len(doc.clientReturns) :
                       doc.clientReturns[j].investmentShare =
                           ActiveSignedSum(ledger', cutoff(ops[k].month),
                                           {doc.clientReturns[j].clientId}, 1)
                /\ \A c \in Users :
                       ActiveSignedSum(ledger', cutoff(ops[k].month), {c}, 1) # 0 =>
                           \E j \in 1..Len(doc.clientReturns) :
                               doc.clientReturns[j].clientId = c
                /\ doc.clientReturns =
                       calculateClientReturns(ops[k].corpusData, doc.monthlyReturnPercentage)

\* C16 (as claimed): in every stored snapshot each client entry has returnAmount =
\* investmentShare * monthlyReturnPercentage / 100 and closingBalance = investmentShare
\* + returnAmount, investmentShare being the client's net active investment as of the
\* end of that month, whatever the previous month's snapshot holds.
C16_ClientReturns ==
    [](ClientReturnsFormula) /\ [][ClientReturnsFromLedger(lastInstantOfMonth)]_vars

\* The same with the cutoff the calculation uses, the last day of the month at 00:00.
ClientReturnsToLastMidnight ==
    [](ClientReturnsFormula) /\ [][ClientReturnsFromLedger(endOfMonth)]_vars

\* The sum over the platforms of (currentValue / totalValue) * returnPercentage.
RECURSIVE WeightedSum(_, _)
WeightedSum(pr, j) ==
    IF j > Len(pr.platforms) THEN RatZero
    ELSE RatAdd(RatMulInt(Rat(pr.platforms[j].currentValue, pr.totalValue),
                          pr.platforms[j].returnPercentage),
                WeightedSum(pr, j + 1))

\* The requests whose calculation has read the platforms.
ReadPlatforms(op) == op.pc \in {"calcUpsert", "calcInsert"}

\* C17: the weighted return of the platforms read is the sum of
\* (currentValue / totalValue) * returnPercentage, and is 0 when totalValue is 0; it is
\* the monthlyReturnPercentage the calculation stores.
C17_WeightedReturn ==
    \A k \in DOMAIN ops :
        ReadPlatforms(ops[k]) =>
            LET pr == ops[k].platformReturns
                r == calculateWeightedReturn(pr)
            IN  /\ pr.totalValue = 0 => r = RatZero
                /\ pr.totalValue # 0 => r = WeightedSum(pr, 1)
                /\ OpDoc(ops[k]).monthlyReturnPercentage = r

\* A calculation has read two platforms of different value and different return.
C17_Witness ==
    \E k \in DOMAIN ops :
        /\ ReadPlatforms(ops[k])
        /\ Len(ops[k].platformReturns.platforms) = 2
        /\ ops[k].platformReturns.platforms[1].currentValue
               # ops[k].platformReturns.platforms[2].currentValue
        /\ ops[k].platformReturns.platforms[1].returnPercentage
               # ops[k].platformReturns.platforms[2].returnPercentage
        /\ ops[k].platformReturns.platforms[1].currentValue > 0
        /\ ops[k].platformReturns.platforms[2].currentValue > 0
        /\ ops[k].platformReturns.platforms[1].returnPercentage > 0

\* The rows of a platform, entered or interpolated.
RowsOf(W, platformId, interpolated) ==
    {i \in 1..Len(W) : W[i].platformId = platformId /\ W[i].isInterpolated = interpolated}

\* Every interpolated row lies after the start of an entered row of its platform and
\* before the start of another.
C13_State ==
    \A i \in DOMAIN weekly :
        weekly[i].isInterpolated =>
            /\ \E j \in RowsOf(weekly, weekly[i].platformId, FALSE) :
                   weekly[j].weekStartDate < weekly[i].weekStartDate
            /\ \E j \in RowsOf(weekly, weekly[i].platformId, FALSE) :
                   weekly[j].weekStartDate > weekly[i].weekStartDate

\* A step that inserts an interpolated row finds, in the store it started from, a row
\* of the platform that ends before that week and a row that starts after it.
C13_Step ==
    \A i \in DOMAIN weekly' :
        (i \notin DOMAIN weekly /\ weekly'[i].isInterpolated) =>
            /\ \E j \in DOMAIN weekly :
                   /\ weekly[j].platformId = weekly'[i].platformId
                   /\ weekly[j].weekEndDate < weekly'[i].weekStartDate
            /\ \E j \in DOMAIN weekly :
                   /\ weekly[j].platformId = weekly'[i].platformId
                   /\ weekly[j].weekStartDate > weekly'[i].weekStartDate

\* C13: interpolateMissingWeeks inserts a row for a missing week only when the platform
\* has a row that ends before the week and a row that starts after it; otherwise the
\* week is left alone, so no interpolated row lies before the platform's earliest or
\* after its latest entered row.
C13_BothBoundaries == [](C13_State) /\ [][C13_Step]_vars

\* The requests whose interpolation has walked its whole month.
Interpolated(op) ==
    /\ op.kind = "fromWeekly"
    /\ op.interp # "threw"
    /\ op.pc \notin {"interpExisting", "interpFind", "interpCreate"}

\* The weeks interpolateMissingWeeks walks for a month.
WeeksOfMonth(m) ==
    {d \in firstDayOfMonth(m)..lastDayOfMonth(m) :
        (d - firstDayOfMonth(m)) % DaysPerWeek = 0}

\* An interpolation has inserted a row and has left a week past the latest entered
\* row of the platform unfilled.
C13_Witness ==
    \E k \in DOMAIN ops :
        /\ Interpolated(ops[k])
        /\ ops[k].inserted # <<>>
        /\ \E d \in WeeksOfMonth(ops[k].month) :
               /\ UniqueWeekAllows(weekly, 1, d)
               /\ \A j \in RowsOf(weekly, 1, FALSE) : weekly[j].weekStartDate < d

\* Two entered rows of a platform with no entered row between them.
Adjacent(W, i, j) ==
    /\ W[i].platformId = W[j].platformId
    /\ ~W[i].isInterpolated /\ ~W[j].isInterpolated
    /\ W[i].weekStartDate < W[j].weekStartDate
    /\ ~\E x \in RowsOf(W, W[i].platformId, FALSE) :
           /\ W[i].weekStartDate < W[x].weekStartDate
           /\ W[x].weekStartDate < W[j].weekStartDate

\* The value on the straight line from a to b, i steps out of n.
OnLine(a, b, i, n) == RatAdd(a, RatDivInt(RatMulInt(RatSub(b, a), i), n))

\* C14 (as claimed): between an entered row of closingValue a and the next entered row
\* of openingValue b with k missing weeks between them, the i-th missing week, once
\* interpolated, has closingValue a + i * (b - a) / (k + 1).
C14_InterpolatedOnLine ==
    \A i, j \in DOMAIN weekly :
        Adjacent(weekly, i, j) =>
            \A x \in RowsOf(weekly, weekly[i].platformId, TRUE) :
                (/\ weekly[i].weekStartDate < weekly[x].weekStartDate
                 /\ weekly[x].weekStartDate < weekly[j].weekStartDate) =>
                    weekly[x].closingValue =
                        OnLine(weekly[i].closingValue, weekly[j].openingValue,
                               (weekly[x].weekStartDate - weekly[i].weekStartDate)
                                   \div DaysPerWeek,
                               (weekly[j].weekStartDate - weekly[i].weekStartDate)
                                   \div DaysPerWeek)

\* The same for the gaps that lie inside one month, interpolated by one request alone.
InterpolatedOnLineWithinMonth ==
    (Len(ops) = 1) =>
        \A i, j \in DOMAIN weekly :
            (/\ Adjacent(weekly, i, j)
             /\ \E m \in Months : /\ weekly[i].weekStartDate >= firstDayOfMonth(m)
                                  /\ weekly[j].weekStartDate <= lastDayOfMonth(m)) =>
                \A x \in RowsOf(weekly, weekly[i].platformId, TRUE) :
                    (/\ weekly[i].weekStartDate < weekly[x].weekStartDate
                     /\ weekly[x].weekStartDate < weekly[j].weekStartDate) =>
                        weekly[x].closingValue =
                            OnLine(weekly[i].closingValue, weekly[j].openingValue,
                                   (weekly[x].weekStartDate - weekly[i].weekStartDate)
                                       \div DaysPerWeek,
                                   (weekly[j].weekStartDate - weekly[i].weekStartDate)
                                       \div DaysPerWeek)

\* A request alone has interpolated two weeks between two entered rows of different
\* value, inside one month.
WithinMonthWitness ==
    /\ Len(ops) = 1
    /\ \E i, j \in DOMAIN weekly :
           /\ Adjacent(weekly, i, j)
           /\ weekly[i].closingValue # weekly[j].openingValue
           /\ Cardinality({x \in RowsOf(weekly, 1, TRUE) :
                              /\ weekly[i].weekStartDate < weekly[x].weekStartDate
                              /\ weekly[x].weekStartDate < weekly[j].weekStartDate}) = 2

\* No two rows of the collection have the same platform and the same week.
NoDuplicateWeeks ==
    \A i, j \in DOMAIN weekly :
        (weekly[i].platformId = weekly[j].platformId
             /\ weekly[i].weekStartDate = weekly[j].weekStartDate) => i = j

\* The second of two interpolations of a month has read the platform's weeks after the
\* first had read them and had inserted its last row; no week is entered meanwhile
\* (both requests are calculations).
RanAfter(k1, k2) ==
    /\ k1 # k2
    /\ ops[k1].kind = "fromWeekly" /\ ops[k2].kind = "fromWeekly"
    /\ ops[k1].month = ops[k2].month
    /\ Interpolated(ops[k1])
    /\ ops[k2].pc # "interpExisting"
    /\ ops[k1].existingWeeks \subseteq ops[k2].existingWeeks
    /\ \A x \in 1..Len(ops[k1].inserted) : ops[k1].inserted[x] \in ops[k2].existingWeeks

\* C15: interpolating a range twice, one after the other or at once, never leaves two
\* rows with the same (platformId, weekStartDate), and the second of two runs in a row
\* inserts no row and raises no error.
C15_InterpolationIdempotent ==
    /\ NoDuplicateWeeks
    /\ \A k1, k2 \in DOMAIN ops :
           RanAfter(k1, k2) => ops[k2].inserted = <<>> /\ ops[k2].interp # "threw"

\* A first interpolation inserted a row and a second one of the same month has walked
\* the month after it.
C15_Witness ==
    \E k1, k2 \in DOMAIN ops :
        /\ RanAfter(k1, k2)
        /\ ops[k1].inserted # <<>>
        /\ Interpolated(ops[k2])

\* The snapshots of the months other than m, in the order of the collection.
OtherMonths(store, m) == SelectSeq(store, LAMBDA doc : doc.month # startOfMonth(m))

\* A step that changes the collection of snapshots is the findOneAndUpdate of a
\* request's calculateMonthlyReturns: it stores the document of that calculation and
\* leaves the snapshots of the other months as they were.
C18_Step ==
    monthlyReturns' # monthlyReturns =>
        \E k \in DOMAIN ops :
            /\ Storing(k)
            /\ OtherMonths(monthlyReturns', ops[k].month)
                   = OtherMonths(monthlyReturns, ops[k].month)
            /\ \A doc \in SnapshotsOf(monthlyReturns', ops[k].month) :
                   ComputedFields(doc) =
                       ComputedFields(OpDoc([ops[k] EXCEPT !.calculatedAt = now]))

\* C18: MonthlyReturn snapshots are created or modified only by calculateMonthlyReturns;
\* no step of a transaction create, edit or cancel, of a platform create or update, of
\* a weekly entry, of the interpolation or of a read changes a stored snapshot
\* otherwise.
C18_OnlyCalculationWrites == [][C18_Step]_vars

\* A weekly entry and a calculation from weekly data that interpolated a week have
\* both completed, and the calculation has stored its snapshot.
C18_Witness ==
    \E k, j \in DOMAIN ops :
        /\ ops[k].kind = "fromWeekly"
        /\ ops[k].inserted # <<>>
        /\ ops[k].pc = "done"
        /\ ops[k].calc = "ok"
        /\ SnapshotsOf(monthlyReturns, ops[k].month) # {}
        /\ ops[j].kind = "weekly"
        /\ ops[j].saved

\* The clients and the platforms a stored snapshot lists.
ClientsOf(doc) == {doc.clientReturns[j].clientId : j \in 1..Len(doc.clientReturns)}
PlatformsOf(doc) == {doc.platformReturns[j].platformId : j \in 1..Len(doc.platformReturns)}

\* The snapshot a calculation stores lists exactly the clients of the corpus and the
\* platforms it read, once each: the clients with an active transaction up to the
\* month's cutoff and the active platforms dated up to it.
C19_Step ==
    \A k \in DOMAIN ops :
        Storing(k) =>
            \A doc \in SnapshotsOf(monthlyReturns', ops[k].month) :
                /\ Len(doc.clientReturns) = Len(ops[k].corpusData.clientShares)
                /\ \A j \in 1..Len(doc.clientReturns) :
                       doc.clientReturns[j].clientId =
                           ops[k].corpusData.clientShares[j].clientId
                /\ Len(doc.platformReturns) = Len(ops[k].platformReturns.platforms)
                /\ \A j \in 1..Len(doc.platformReturns) :
                       doc.platformReturns[j].platformId =
                           ops[k].platformReturns.platforms[j].platformId
                /\ ClientsOf(doc) =
                       {c \in ClientIds :
                           \E i \in ActiveBefore(ledger', endOfMonth(ops[k].month)) :
                               ledger'[i].clientId = c}
                /\ PlatformsOf(doc) =
                       {i \in DOMAIN platforms' :
                           /\ platforms'[i].status = "active"
                           /\ platforms'[i].investmentDate <= endOfMonth(ops[k].month)}

\* C19: each calculation of a month replaces the whole stored snapshot of that month;
\* its clientReturns and platformReturns list exactly the clients and platforms of this
\* calculation, so a client whose transactions were all cancelled, or a platform
\* closed, since the previous calculation is no longer listed.
C19_WholeSnapshotReplaced == [][C19_Step]_vars

\* A cancellation has left a client without active transaction and a platform is
\* closed; the snapshot of month 0, which listed both, has been recalculated and
\* lists neither.
C19_Witness ==
    \E k \in DOMAIN ops :
        /\ ops[k].kind = "delete" /\ ops[k].saved /\ ops[k].pc = "done" /\ ops[k].calc = "ok"
        /\ ActiveBefore(ledger, MaxInstant) = {}
        /\ \E i \in DOMAIN platforms : platforms[i].status = "closed"
        /\ \E i \in DOMAIN platforms : platforms[i].status = "active"
        /\ \A doc \in SnapshotsOf(monthlyReturns, 0) :
               /\ doc.clientReturns = <<>>
               /\ Len(doc.platformReturns) = 1

\* The totalCorpus a calculation of month m on the present ledger would store.
FreshCorpus(L, m) == ActiveSignedSum(L, endOfMonth(m), ClientIds, 1)

\* A calculation stores a totalCorpus other than that of the ledger of the moment only
\* when a mutation has been made since its request began: the value was read from
\* an older ledger, and nothing stops the store.
C20_Step ==
    \A k \in DOMAIN ops :
        Storing(k) =>
            \A doc \in SnapshotsOf(monthlyReturns', ops[k].month) :
                \/ doc.totalCorpus = FreshCorpus(ledger', ops[k].month)
                \/ ~ops[k].clean

\* C20: calculations run without locking, so when two triggers that cover a common
\* month run concurrently one can overwrite the other's snapshot with values computed
\* from an older ledger; a snapshot stored from an older ledger is always the work of
\* a request that a later mutation overlapped.
C20_ConcurrentTriggersRace == [][C20_Step]_vars

\* Two transaction triggers covering a common month have both finished without
\* error, and the stored snapshot of that month is not the one a calculation on the
\* final ledger would store.
C20_Witness ==
    /\ AllDone
    /\ Len(ops) = 2
    /\ \A k \in DOMAIN ops :
           /\ ops[k].kind \in {"create", "edit", "delete"}
           /\ ops[k].saved
           /\ ops[k].calc = "ok"
    /\ \E m \in MonthsOf(ops[1].range) \cap MonthsOf(ops[2].range) :
           \E doc \in SnapshotsOf(monthlyReturns, m) :
               doc.totalCorpus # FreshCorpus(ledger, m)

\* The stores as they were when the first n requests of a behaviour of creations had
\* begun: a deposit or an allocation is appended when its request begins.
Appended(kind, n) == Cardinality({j \in DOMAIN ops : j > n /\ ops[j].kind = kind /\ ops[j].saved})
LedgerAfter(n) == SubSeq(ledger, 1, Len(ledger) - Appended("create", n))
PlatformsAfter(n) == SubSeq(platforms, 1, Len(platforms) - Appended("platCreate", n))

\* C21 (as claimed): every snapshot is computed from one consistent state of the
\* ledger and platform stores: at some instant while the request ran, the ledger gave
\* the corpus the calculation read and the platform store gave the platform returns
\* it read.
C21_ConsistentReads ==
    \A k \in DOMAIN ops :
        ops[k].pc \in {"calcUpsert", "calcInsert"} =>
            \E n \in k..Len(ops) :
                /\ ops[k].corpusData =
                       getCorpusAtDate(LedgerAfter(n), endOfMonth(ops[k].month))
                /\ ops[k].platformReturns =
                       getPlatformReturns(PlatformsAfter(n), startOfMonth(ops[k].month),
                                          endOfMonth(ops[k].month))

\* Each of the two reads alone observes a state the store was in while the request ran.
EachReadObservesAState ==
    \A k \in DOMAIN ops :
        ops[k].pc \in {"calcUpsert", "calcInsert"} =>
            /\ \E n \in k..Len(ops) :
                   ops[k].corpusData =
                       getCorpusAtDate(LedgerAfter(n), endOfMonth(ops[k].month))
            /\ \E n \in k..Len(ops) :
                   ops[k].platformReturns =
                       getPlatformReturns(PlatformsAfter(n), startOfMonth(ops[k].month),
                                          endOfMonth(ops[k].month))

\* The snapshot a calculation of month m on the present ledger and platforms stores,
\* calculatedAt aside.
FreshFields(m) ==
    ComputedFields(SnapshotDoc(m, getCorpusAtDate(ledger, endOfMonth(m)),
                               getPlatformReturns(platforms, startOfMonth(m), endOfMonth(m)),
                               0))

\* Request k1's recalculation failed, and request k2, begun later with the same
\* fromDate's month, has completed its own; no request begun after k1 has mutated a
\* store.
ReconciledAfterFailure(k1, k2) ==
    /\ k1 < k2
    /\ ops[k1].cascade /\ ops[k1].calc = "threw"
    /\ ops[k2].cascade /\ ops[k2].calc = "ok" /\ ops[k2].pc = "done"
    /\ getMonth(ops[k1].fromDate) = getMonth(ops[k2].fromDate)
    /\ \A j \in DOMAIN ops : j > k1 => ~ops[j].saved

\* After a failed recalculation and no further mutation, a later recalculation from
\* the same month that completes leaves each of its months with one snapshot, equal
\* to the calculation on the present ledger and platforms.
C22_State ==
    \A k1, k2 \in DOMAIN ops :
        ReconciledAfterFailure(k1, k2) =>
            \A m \in MonthsOf(ops[k2].range) :
                /\ Cardinality(MatchingDocs(monthlyReturns, startOfMonth(m))) = 1
                /\ \A doc \in SnapshotsOf(monthlyReturns, m) : ComputedFields(doc) = FreshFields(m)

\* The step in which a recalculation fails stores nothing; the request has stored
\* the months of its range before the failing month and never stores another.
C22_Step ==
    \A k \in DOMAIN ops :
        /\ (ops[k].cascade /\ ops[k].calc # "threw" /\ ops'[k].calc = "threw") =>
               /\ monthlyReturns' = monthlyReturns
               /\ CalculatedMonths(ops'[k]) =
                      {m \in MonthsOf(ops[k].range) : m < ops[k].month}
        /\ ops[k].calc = "threw" =>
               /\ ~Storing(k)
               /\ ops'[k].calcLog = ops[k].calcLog
               /\ ops'[k].calc = "threw"

\* C22 (as claimed): after a recalculation failed at some month, and with no further
\* mutation, the next recalculateFromDate with the same fromDate that completes leaves
\* every month from fromDate's month through the current month with a snapshot equal to
\* the calculation on the current ledger and platforms; until then the months before
\* the failing month hold the failed run's values and the failing month and the later
\* ones are not written by it.
C22_ReconciledByNextRun == [](C22_State) /\ [][C22_Step]_vars

\* No request of the behaviour began before the last mutation: no calculation holds
\* values read from an older ledger or platform store.
NoStaleRun == \A j \in DOMAIN ops : ops[j].clean

\* C22 (amended): the same, when no request that began before the last mutation is
\* there to store what it read then.
C22_ReconciledWhenNoStaleRun ==
    /\ [](NoStaleRun => C22_State)
    /\ [][C22_Step]_vars

\* A recalculation of two months failed at its second month, and a recalculation from
\* the same month, begun after it, has completed.
C22_Witness ==
    \E k1, k2 \in DOMAIN ops :
        /\ NoStaleRun
        /\ ReconciledAfterFailure(k1, k2)
        /\ ops[k1].range = <<0, 1>>
        /\ CalculatedMonths(ops[k1]) = {0}
        /\ ops[k2].kind = "recalc"

\* The active transactions dated in calendar month m, up to any time of its last day.
ActiveInMonth(L, m) ==
    {i \in 1..Len(L) : L[i].status = "active" /\ getMonth(L[i].investmentDate) = m}

\* C23 (as claimed): the snapshot calculated for month M counts every active
\* transaction dated on any day of M, the last day at any time of day included, in
\* totalCorpus and in its client's investmentShare.
C23_WholeMonthCounted ==
    [][\A k \in DOMAIN ops :
           Storing(k) =>
               \A doc \in SnapshotsOf(monthlyReturns', ops[k].month) :
                   /\ doc.totalCorpus =
                          ActiveSignedSum(ledger', lastInstantOfMonth(ops[k].month),
                                          ClientIds, 1)
                   /\ \A i \in ActiveInMonth(ledger', ops[k].month) :
                          \E j \in 1..Len(doc.clientReturns) :
                              /\ doc.clientReturns[j].clientId = ledger'[i].clientId
                              /\ doc.clientReturns[j].investmentShare =
                                     ActiveSignedSum(ledger',
                                                     lastInstantOfMonth(ops[k].month),
                                                     {ledger'[i].clientId}, 1)]_vars

\* What the code does: the transactions of month M dated up to the last day at 00:00
\* are counted, those dated later on the last day are not.
MonthCountedToLastMidnight ==
    [][\A k \in DOMAIN ops :
           Storing(k) =>
               \A doc \in SnapshotsOf(monthlyReturns', ops[k].month) :
                   /\ doc.totalCorpus =
                          ActiveSignedSum(ledger', endOfMonth(ops[k].month), ClientIds, 1)
                   /\ \A i \in ActiveInMonth(ledger', ops[k].month) :
                          ledger'[i].investmentDate > endOfMonth(ops[k].month) =>
                              \A j \in 1..Len(doc.clientReturns) :
                                  doc.clientReturns[j].investmentShare =
                                      ActiveSignedSum(ledger', endOfMonth(ops[k].month),
                                                      {doc.clientReturns[j].clientId}, 1)]_vars

\* Rows i and j are a platform's rows of two consecutive weeks.
ConsecutiveWeeks(W, i, j) ==
    /\ W[i].platformId = W[j].platformId
    /\ W[j].weekStartDate = W[i].weekStartDate + DaysPerWeek

\* C24 (as claimed): whenever a platform has rows for two consecutive weeks N-1 and N,
\* the openingValue of week N is the closingValue of week N-1, whatever the order the
\* weeks were entered in and also next to interpolated rows.
C24_OpeningIsPreviousClosing ==
    \A i, j \in DOMAIN weekly :
        ConsecutiveWeeks(weekly, i, j) => weekly[j].openingValue = weekly[i].closingValue

\* What holds: with one request at a time, a row stored after the row of the week
\* before it opens at that row's closing value.
OpeningChainedWhenStoredInOrder ==
    Len(ops) <= 1 =>
        \A i, j \in DOMAIN weekly :
            (ConsecutiveWeeks(weekly, i, j) /\ i < j) =>
                weekly[j].openingValue = weekly[i].closingValue

\* An interpolated row is followed by the entered row of the next week, whose
\* openingValue is not the interpolated closingValue.
InterpolatedNextToEntered ==
    \E i, j \in DOMAIN weekly :
        /\ ConsecutiveWeeks(weekly, i, j)
        /\ weekly[i].isInterpolated /\ ~weekly[j].isInterpolated
        /\ weekly[j].openingValue # weekly[i].closingValue

\* ------------------------------------------------------------------ C25
\* The platforms that are active now and were allocated on or before the end of month m.
SelectedNow(m) ==
    {i \in DOMAIN platforms :
        platforms[i].status = "active" /\ platforms[i].investmentDate <= endOfMonth(m)}

\* The calculation of request k reads the platforms in this step.
ReadingPlatforms(k) == ops[k].pc = "calcPlatforms" /\ ops'[k].pc = "calcUpsert"

\* The read of a month takes exactly the platforms selected now, each with its present
\* currentValue and returnPercentage.
UsesPresentPlatforms ==
    \A k \in DOMAIN ops :
        ReadingPlatforms(k) =>
            LET pr == ops'[k].platformReturns
            IN  /\ {pr.platforms[j].platformId : j \in DOMAIN pr.platforms}
                       = SelectedNow(ops[k].month)
                /\ Len(pr.platforms) = Cardinality(SelectedNow(ops[k].month))
                /\ \A j \in DOMAIN pr.platforms :
                       /\ pr.platforms[j].currentValue
                              = platforms[pr.platforms[j].platformId].currentValue
                       /\ pr.platforms[j].returnPercentage
                              = platforms[pr.platforms[j].platformId].returnPercentage

\* No closed platform is listed in a snapshot that a calculation stores.
ClosedContributesNothing ==
    \A k \in DOMAIN ops :
        Storing(k) =>
            \A doc \in SnapshotsOf(monthlyReturns', ops[k].month) :
                \A j \in DOMAIN doc.platformReturns :
                    platforms[doc.platformReturns[j].platformId].status = "active"

\* The cascade of request k has just returned.
CascadeReturned(k) ==
    /\ ops[k].cascade /\ ops[k].calc = "ok" /\ ops[k].pc = "respond"
    /\ MonthsLength(ops[k].range) > 0

\* The months of the cascade of request k that select the same platforms hold the same
\* totalPlatformValue and monthlyReturnPercentage.
SameSelectionSameTotals(k) ==
    \A m1, m2 \in MonthsOf(ops[k].range) :
        SelectedNow(m1) = SelectedNow(m2) =>
            \A d1 \in SnapshotsOf(monthlyReturns, m1), d2 \in SnapshotsOf(monthlyReturns, m2) :
                /\ d1.totalPlatformValue = d2.totalPlatformValue
                /\ d1.monthlyReturnPercentage = d2.monthlyReturnPercentage

SavedEdits(id) ==
    {k \in DOMAIN ops : ops[k].kind = "edit" /\ ops[k].target = id /\ ops[k].saved}

\* The editHistory of every transaction has one entry per saved edit, ends at the
\* transaction's amount, and every entry starts at the amount the one before it left.
HistoryChained ==
    \A id \in DOMAIN ledger :
        LET h == ledger[id].editHistory
        IN  /\ Len(h) = Cardinality(SavedEdits(id))
            /\ Len(h) > 0 => h[Len(h)].newAmount = ledger[id].amount
            /\ \A i \in 2..Len(h) : h[i].previousAmount = h[i - 1].newAmount

\* A step keeps every entry of every editHistory, and an entry it adds goes from the
\* amount the transaction had before the step to the amount it has after it.
HistoryAppendOnly ==
    \A id \in DOMAIN ledger :
        LET h == ledger[id].editHistory
            h2 == ledger'[id].editHistory
        IN  /\ Len(h2) \in {Len(h), Len(h) + 1}
            /\ \A i \in DOMAIN h : h2[i] = h[i]
            /\ Len(h2) = Len(h) + 1 =>
                   /\ h2[Len(h2)].previousAmount = ledger[id].amount
                   /\ h2[Len(h2)].newAmount = ledger'[id].amount

\* C26 (as claimed): after any edits of a transaction its editHistory has one entry per
\* edit in edit order; each entry's previousAmount is the amount just before that edit
\* and its newAmount the amount just after, so the last newAmount is the current amount
\* and each previousAmount is the preceding newAmount; no operation removes or rewrites
\* an entry.
C26_EditHistoryChained == [](HistoryChained) /\ [][HistoryAppendOnly]_vars

\* What holds: entries are only appended, one per saved edit, each with the amount its
\* request asked for, and the last one holds the transaction's amount.
EditHistoryAppended ==
    /\ [](\A id \in DOMAIN ledger :
             LET h == ledger[id].editHistory
             IN  /\ Len(h) = Cardinality(SavedEdits(id))
                 /\ Len(h) > 0 => h[Len(h)].newAmount = ledger[id].amount)
    /\ [][\A id \in DOMAIN ledger :
             LET h == ledger[id].editHistory
                 h2 == ledger'[id].editHistory
             IN  /\ Len(h2) \in {Len(h), Len(h) + 1}
                 /\ \A i \in DOMAIN h : h2[i] = h[i]]_vars

\* Two edits of one transaction that do not overlap: the second was read after the
\* first was saved.
EditedTwiceInTurn ==
    \E id \in DOMAIN ledger :
        /\ Len(ledger[id].editHistory) = 2
        /\ ledger[id].editHistory[2].previousAmount = ledger[id].editHistory[1].newAmount
        /\ ledger[id].editHistory[1].newAmount # ledger[id].editHistory[2].newAmount

\* ------------------------------------------------------------------ C27
\* The request is an edit, a cancellation or a manual recalculation that has answered
\* after its change was saved and its recalculation returned.
PersistedAndAnswered(op) ==
    /\ op.kind \in {"edit", "delete", "recalc"}
    /\ op.pc = "done"
    /\ op.kind \in {"edit", "delete"} => op.saved
    /\ op.calc = "ok"

\* C27 (as claimed): every edit, cancellation and manual recalculation whose ledger
\* change and recalculation were persisted has an audit-log entry and answers with
\* success; none answers with an error after its change and snapshots are stored.
C27_PersistedIsAuditedAndSucceeds ==
    \A k \in DOMAIN ops :
        PersistedAndAnswered(ops[k]) =>
            /\ ops[k].response = 200
            /\ \E i \in DOMAIN auditLogs : auditLogs[i] = AuditEntry(ops[k])

\* What the handlers do: the audit entry is refused by the schema, nothing is logged
\* and the request answers 500 with its change and snapshots stored.
PersistedAnswersError ==
    \A k \in DOMAIN ops :
        PersistedAndAnswered(ops[k]) => (ops[k].response = 500 /\ auditLogs = <<>>)

\* An edit has answered after its change was saved and months were recalculated.
EditPersistedAndAnswered ==
    \E k \in DOMAIN ops :
        /\ PersistedAndAnswered(ops[k]) /\ ops[k].kind = "edit"
        /\ ops[k].monthsRecalculated > 0
        /\ ledger[ops[k].target].isEdited

\* ------------------------------------------------------------------ C28
\* A step leaves every cancelled transaction cancelled.
CancelledStaysCancelled ==
    \A id \in DOMAIN ledger :
        /\ ledger'[id].status \in {"active", "cancelled"}
        /\ ledger[id].status = "cancelled" => ledger'[id].status = "cancelled"

\* The ledger with the amount of every cancelled transaction replaced by a.
CancelledAmountsSetTo(L, a) ==
    [id \in DOMAIN L |-> IF L[id].status = "cancelled" THEN [L[id] EXCEPT !.amount = a]
                         ELSE L[id]]

\* The corpus and the shares a calculation reads, and so the ones it stores, are the
\* same whatever the amounts of the cancelled transactions are.
CancelledAmountIgnored ==
    \A k \in DOMAIN ops :
        (ops[k].pc = "calcCorpus" /\ ops'[k].pc = "calcPlatforms") =>
            \A a \in {0} \cup EditAmounts :
                ops'[k].corpusData =
                    getCorpusAtDate(CancelledAmountsSetTo(ledger, a), endOfMonth(ops[k].month))

\* C28: a transaction's status only moves from active to cancelled, and no operation
\* makes a cancelled one active again; editing the amount of a cancelled transaction,
\* which the edit accepts, changes no totalCorpus and no client share of a snapshot
\* calculated afterwards.
C28_CancelledIsFinal == [][CancelledStaysCancelled /\ CancelledAmountIgnored]_vars

\* The edit of a cancelled transaction was accepted, its cascade has stored the month
\* and returned, and the month's snapshot counts nothing of the edited amount.
C28_Witness ==
    \E k \in DOMAIN ops :
        /\ ops[k].kind = "edit" /\ ops[k].saved /\ ops[k].calc = "ok"
        /\ \E j \in 1..(k - 1) : ops[j].kind = "delete" /\ ops[j].target = ops[k].target
        /\ ledger[ops[k].target].status = "cancelled"
        /\ ledger[ops[k].target].amount \in EditAmounts
        /\ Len(monthlyReturns) = 1
        /\ monthlyReturns[1].totalCorpus = 0
        /\ monthlyReturns[1].clientReturns = <<>>

\* ------------------------------------------------------------------ C29
\* The date that the calculation of request op was called with: the month of the
\* cascade's loop, or new Date() at the call.
CalledWith(op) == IF op.cascade THEN startOfMonth(op.month) ELSE op.startedAt

\* A calculation that stores writes the snapshot keyed by the first day of the month of
\* its date and no other; inside recalculateFromDate(fromDate) the snapshots of the
\* months before fromDate's month stay as they are.
C29_Step ==
    \A k \in DOMAIN ops :
        Storing(k) =>
            /\ Len(monthlyReturns') >= Len(monthlyReturns)
            /\ \A i \in Written :
                   monthlyReturns'[i].month = startOfMonth(getMonth(CalledWith(ops[k])))
            /\ ops[k].cascade =>
                   \A i \in DOMAIN monthlyReturns :
                       monthlyReturns[i].month < startOfMonth(getMonth(ops[k].fromDate)) =>
                           monthlyReturns'[i] = monthlyReturns[i]

\* Every stored snapshot is keyed by the first day of a month.
FirstOfMonthKeys ==
    \A i \in DOMAIN monthlyReturns :
        monthlyReturns[i].month = startOfMonth(getMonth(monthlyReturns[i].month))

\* C29: recalculateFromDate(fromDate) changes no snapshot of a month earlier than
\* fromDate's month, calculateMonthlyReturns(d) writes only the snapshot keyed by the
\* first day of d's month, and every stored snapshot's month key is a first-of-month
\* date.
C29_WritesOnlyItsMonths == [](FirstOfMonthKeys) /\ [][C29_Step]_vars

\* A platform allocated from the last day of month 0 has months 0 and 1 calculated; an
\* update sent in the middle of month 1 stores month 1 alone; a recalculation from
\* month 1 has returned and month 0 still holds what the allocation stored.
C29_Witness ==
    /\ Len(ops) = 3
    /\ ops[1].kind = "platCreate" /\ ops[1].fromDate = lastInstantOfMonth(0)
    /\ ops[1].range = <<0, 1>> /\ ops[1].calc = "ok"
    /\ ops[2].kind = "platUpdate" /\ ops[2].calc = "ok"
    /\ ops[2].startedAt = startOfMonth(1) + 1 /\ CalculatedMonths(ops[2]) = {1}
    /\ ops[3].kind = "recalc" /\ ops[3].calc = "ok" /\ ops[3].pc = "respond"
    /\ getMonth(ops[3].fromDate) = 1
    /\ CalculatedMonths(ops[3]) \subseteq {1, 2}
    /\ \E doc \in SnapshotsOf(monthlyReturns, 0) :
           doc.totalPlatformValue = 0 /\ doc.calculatedAt = ops[1].startedAt
    /\ \E doc \in SnapshotsOf(monthlyReturns, 1) :
           doc.totalPlatformValue > 0 /\ doc.calculatedAt >= ops[3].startedAt

\* ------------------------------------------------------------------ C30
\* The rows of platform p, in the order of the collection.
RowsOfPlatform(W, p) == SelectSeq(W, LAMBDA row : row.platformId = p)

\* The step is one of request k.
StepOf(k) == Len(ops') = Len(ops) /\ ops'[k] # ops[k]

\* A step keeps every stored row as it is.
RowsKept == \A i \in DOMAIN weekly : i \in DOMAIN weekly' /\ weekly'[i] = weekly[i]

\* The rows a step of the interpolation of request k inserts are marked interpolated,
\* have no enteredBy and belong to the platform of the loop.
InsertsInterpolated ==
    \A k \in DOMAIN ops :
        (ops[k].pc = "interpCreate" /\ StepOf(k) /\ weekly' # weekly) =>
            /\ Len(weekly') = Len(weekly) + 1
            /\ weekly'[Len(weekly')].isInterpolated
            /\ weekly'[Len(weekly')].enteredBy = "none"
            /\ weekly'[Len(weekly')].platformId = Head(ops[k].queue)

\* The rows a weekly data entry stores are not marked interpolated.
EntriesNotInterpolated ==
    (weekly' # weekly /\ Len(ops') > Len(ops)) =>
        /\ Len(weekly') = Len(weekly) + 1
        /\ ~weekly'[Len(weekly')].isInterpolated
        /\ weekly'[Len(weekly')].enteredBy = "admin"
        /\ ops'[Len(ops')].kind = "weekly"

\* What the loop reads for a platform is what it would read if the collection held that
\* platform's rows alone: the weeks that exist, the decision to insert, and the row.
ReadsOwnRows ==
    \A k \in DOMAIN ops :
        LET op == ops[k]
            p == Head(op.queue)
            own == RowsOfPlatform(weekly, p)
            before == RowsBefore(own, p, op.currentWeek)
            after == RowsAfter(own, p, op.currentWeek)
        IN  /\ (op.pc = "interpExisting" /\ StepOf(k)) =>
                   ops'[k].existingWeeks =
                       {own[i].weekStartDate :
                           i \in {j \in DOMAIN own :
                                     /\ own[j].weekStartDate >= firstDayOfMonth(op.month)
                                     /\ own[j].weekStartDate <= lastDayOfMonth(op.month)}}
            /\ (op.pc = "interpFind" /\ StepOf(k)) =>
                   /\ ops'[k].pc = "interpCreate" <=>
                          (op.currentWeek \notin op.existingWeeks
                               /\ before # {} /\ after # {})
                   /\ ops'[k].pc = "interpCreate" =>
                          ops'[k].pending =
                              InterpolatedRow(p, op.currentWeek,
                                              own[LatestRow(own, before)],
                                              own[EarliestRow(own, after)])

\* C30: interpolation never modifies or replaces a stored weekly row; every row a run
\* inserts has isInterpolated = true and no enteredBy; every row stored by weekly data
\* entry has isInterpolated = false; a run for one platform reads and writes only that
\* platform's rows.
C30_InterpolationOnlyInserts ==
    [][/\ RowsKept
       /\ InsertsInterpolated
       /\ EntriesNotInterpolated
       /\ ReadsOwnRows
       /\ weekly' # weekly =>
              \/ Len(ops') > Len(ops)
              \/ \E k \in DOMAIN ops : ops[k].pc = "interpCreate" /\ StepOf(k)]_vars

\* A run has inserted the weeks of platform 1 missing between its rows of weeks 0 and
\* 3, next to the row of platform 2 for week 1, which is as it was entered.
C30_Witness ==
    \E k \in DOMAIN ops :
        /\ ops[k].kind = "fromWeekly" /\ ops[k].interp = "ok"
        /\ ops[k].inserted = <<WeekStart(1), WeekStart(2)>>
        /\ \E i, j \in DOMAIN weekly :
               /\ weekly[i].platformId = 1 /\ weekly[i].weekStartDate = WeekStart(1)
               /\ weekly[i].isInterpolated /\ weekly[i].enteredBy = "none"
               /\ weekly[j].platformId = 2 /\ weekly[j].weekStartDate = WeekStart(1)
               /\ ~weekly[j].isInterpolated /\ weekly[j].enteredBy = "admin"
               /\ weekly[j].closingValue # weekly[i].openingValue
====
